---- MODULE Spec2Model ----
(***************************************************************************)
(* Scoring and aggregation engine of agent-readiness-audit:                *)
(* check registry and runner (checks/base.py), the scan loop and the       *)
(* aggregation (scanner.py), and the scoring functions (models.py).        *)
(*                                                                         *)
(* Scores are Python floats in the source.  They are modelled as exact     *)
(* rationals [n, d] in lowest terms, so the model states the arithmetic    *)
(* the code performs without IEEE rounding.                                *)
(***************************************************************************)
EXTENDS Integers, Sequences, FiniteSets, TLC

VARIABLES
    config,          \* the AuditConfig handed to scan_repo
    registry,        \* _CHECK_REGISTRY, in insertion order
    all_checks,      \* scan_repo's local snapshot get_all_checks()
    pc,              \* position of scan_repo: "idle", "loop", "done" or "raised"
    idx,             \* number of entries of all_checks the loop has visited
    check_results,   \* scan_repo's local dict check name -> passed
    returned,        \* per executed check: what its probe did, what run_check returned
    result,          \* the RepoResult under construction
    mode,            \* which entry point this behaviour exercises
    fn_in,           \* argument of a directly called scoring function
    fn_out           \* its return value

vars == <<config, registry, all_checks, pc, idx, check_results, returned,
          result, mode, fn_in, fn_out>>

scanVars == <<config, registry, all_checks, pc, idx, check_results, returned, result>>

None == "None"

----------------------------------------------------------------------------
(* Bounds of the model *)

\* at most this many probes of one scan return something other than passed
MaxNonPassed == 2

\* directly called maturity functions get scores 0, 1/2, 1, ... MaxScoreHalves/2
MaxScoreHalves == 34

\* get_grade_for_score is called with scores 0, 1/10, ... MaxGradeTenths/10
MaxGradeTenths == 1000

\* calculate_overall_score is called with domain scores k * 100 / ScoreSteps
ScoreSteps == 2

\* at most this many registrations follow the creation of the registry
MaxRegistrations == 4

\* datetime.now() reads 0..MaxClock
MaxClock == 1

\* scan_repos gets at most this many paths
MaxPaths == 3

\* find_repos is called with depth 0..MaxDepth
MaxDepth == 2

\* the scan command scans at most this many repositories
MaxRepos == 2

----------------------------------------------------------------------------
(* Exact rational arithmetic standing for Python float arithmetic *)

RECURSIVE GCD(_, _)
GCD(a, b) == IF b = 0 THEN a ELSE GCD(b, a % b)

Abs(x) == IF x < 0 THEN -x ELSE x

\* the rational n/d (d > 0) in lowest terms
Rat(n, d) ==
    LET g == GCD(Abs(n), d)
    IN  [n |-> n \div g, d |-> d \div g]

FromInt(i) == [n |-> i, d |-> 1]

RatAdd(a, b) == Rat(a.n * b.d + b.n * a.d, a.d * b.d)
RatMul(a, b) == Rat(a.n * b.n, a.d * b.d)
RatLE(a, b) == a.n * b.d <= b.n * a.d
RatLT(a, b) == a.n * b.d < b.n * a.d
RatGE(a, b) == RatLE(b, a)
RatEq(a, b) == a.n * b.d = b.n * a.d

ZeroDivisionError == [error |-> "ZeroDivisionError"]

\* Python's a / b on numbers: raises ZeroDivisionError when b is 0
TrueDiv(a, b) == IF b = 0 THEN ZeroDivisionError ELSE Rat(a, b)

IsRat(x) == "n" \in DOMAIN x

\* x * y where x may be the outcome of a failed division
Times(x, y) == IF IsRat(x) /\ IsRat(y) THEN RatMul(x, y) ELSE ZeroDivisionError

RECURSIVE SumSeq(_)
SumSeq(s) ==
    IF s = <<>> THEN FromInt(0)
    ELSE LET rest == SumSeq(Tail(s))
         IN  IF IsRat(Head(s)) /\ IsRat(rest) THEN RatAdd(Head(s), rest)
             ELSE ZeroDivisionError

Range(s) == {s[i] : i \in 1..Len(s)}

\* s restricted to the elements satisfying Test, order kept
SelectIn(s, set) == SelectSeq(s, LAMBDA x : x \in set)

----------------------------------------------------------------------------
(* Static tables of models.py and scanner.py *)

CATEGORY_ORDER ==
    << "discoverability", "deterministic_setup", "build_and_run",
       "test_feedback_loop", "static_guardrails", "observability",
       "ci_enforcement", "security_and_governance" >>

PILLAR_ORDER ==
    << "environment_determinism", "fast_guardrails", "type_contracts",
       "verification_trust", "verification_speed", "documentation_structure",
       "inline_documentation", "contribution_contract", "agentic_security",
       "secret_hygiene", "telemetry_tracing", "structured_logging_cost",
       "eval_frameworks", "golden_datasets", "distribution_dx" >>

DOMAIN_ORDER ==
    << "structure", "interfaces", "determinism", "security", "testing", "ergonomics" >>

\* weights with ergonomics at 15 percent
DOMAIN_WEIGHTS_unbalanced ==
    [ structure   |-> Rat(15, 100),
      interfaces  |-> Rat(20, 100),
      determinism |-> Rat(20, 100),
      security    |-> Rat(20, 100),
      testing     |-> Rat(15, 100),
      ergonomics  |-> Rat(15, 100) ]

DOMAIN_WEIGHTS ==
    [ structure   |-> Rat(15, 100),
      interfaces  |-> Rat(20, 100),
      determinism |-> Rat(20, 100),
      security    |-> Rat(20, 100),
      testing     |-> Rat(15, 100),
      ergonomics  |-> Rat(10, 100) ]

CATEGORY_TO_DOMAIN ==
    [ discoverability         |-> "structure",
      deterministic_setup     |-> "determinism",
      build_and_run           |-> "ergonomics",
      test_feedback_loop      |-> "testing",
      static_guardrails       |-> "interfaces",
      observability           |-> "ergonomics",
      ci_enforcement          |-> "ergonomics",
      security_and_governance |-> "security" ]

PILLAR_TO_DOMAIN ==
    [ environment_determinism |-> "determinism",
      fast_guardrails         |-> "interfaces",
      type_contracts          |-> "interfaces",
      verification_trust      |-> "testing",
      verification_speed      |-> "testing",
      documentation_structure |-> "structure",
      inline_documentation    |-> "structure",
      contribution_contract   |-> "ergonomics",
      agentic_security        |-> "security",
      secret_hygiene          |-> "security",
      telemetry_tracing       |-> "ergonomics",
      structured_logging_cost |-> "ergonomics",
      eval_frameworks         |-> "testing",
      golden_datasets         |-> "testing",
      distribution_dx         |-> "ergonomics" ]

MATURITY_NAMES ==
    [ l \in 1..5 |->
        CASE l = 1 -> "Functional"
          [] l = 2 -> "Documented"
          [] l = 3 -> "Standardized"
          [] l = 4 -> "Optimized"
          [] l = 5 -> "Autonomous" ]

FIX_FIRST_PRIORITIES ==
    << "discoverability", "deterministic_setup", "build_and_run",
       "test_feedback_loop", "static_guardrails", "ci_enforcement",
       "security_and_governance" >>

----------------------------------------------------------------------------
(* The check registry (checks/base.py and the check modules) *)

\* CheckDefinition as the check decorator builds it
CheckDefinition(name, category, pillar, domain, weight, gate_for) ==
    [ name |-> name, category |-> category, pillar |-> pillar, domain |-> domain,
      weight |-> weight, enabled |-> TRUE, gate_for |-> gate_for ]

\* The registered checks of the model: nine of the repository's checks, with the
\* metadata their decorators give, covering every category and every domain and
\* the three ways a check reaches its domain (explicit, by pillar, by category).
Registry ==
    << CheckDefinition("promptfoo_present", "security_and_governance",
                       "agentic_security", "", FromInt(1), <<>>),
       CheckDefinition("ci_workflow_present", "ci_enforcement",
                       "verification_trust", "", FromInt(1), <<3>>),
       CheckDefinition("lockfile_exists", "deterministic_setup",
                       "", "", FromInt(1), <<>>),
       CheckDefinition("readme_has_setup_section", "discoverability",
                       "distribution_dx", "", FromInt(1), <<2>>),
       CheckDefinition("precommit_present", "build_and_run",
                       "fast_guardrails", "", FromInt(1), <<>>),
       CheckDefinition("typed_interfaces", "static_guardrails",
                       "", "interfaces", FromInt(1), <<>>),
       CheckDefinition("readme_answers_what", "discoverability",
                       "", "structure", FromInt(1), <<>>),
       CheckDefinition("opentelemetry_present", "observability",
                       "telemetry_tracing", "", FromInt(1), <<>>),
       CheckDefinition("machine_readable_coverage", "test_feedback_loop",
                       "verification_trust", "", FromInt(1), <<>>) >>

CheckNames == {Registry[i].name : i \in 1..Len(Registry)}

\* GATE_CHECKS, each level's list restricted to the checks of Registry
GATE_CHECKS ==
    [ l \in 3..5 |->
        CASE l = 3 -> << "lockfile_exists", "ci_workflow_present",
                         "readme_has_setup_section" >>
          [] l = 4 -> << "precommit_present", "machine_readable_coverage" >>
          [] l = 5 -> << "opentelemetry_present", "promptfoo_present" >> ]

\* GATE_CHECKS with the name of one level 3 check misspelt
GATE_CHECKS_ALL_renamed ==
    [ l \in 3..5 |->
        CASE l = 3 -> << "dependency_manifest_exists", "lockfile_present",
                         "ci_workflow_present", "linter_config_present",
                         "tests_directory_or_config_exists", "readme_has_setup_section",
                         "readme_has_test_instructions" >>
          [] l = 4 -> << "precommit_present", "fast_linter_python",
                         "machine_readable_coverage", "test_splitting",
                         "python_type_hint_coverage", "mypy_strictness" >>
          [] l = 5 -> << "opentelemetry_present", "structured_logging_present",
                         "eval_framework_detect", "golden_dataset_present",
                         "promptfoo_present" >> ]

\* GATE_CHECKS as models.py has it
GATE_CHECKS_ALL ==
    [ l \in 3..5 |->
        CASE l = 3 -> << "dependency_manifest_exists", "lockfile_exists",
                         "ci_workflow_present", "linter_config_present",
                         "tests_directory_or_config_exists", "readme_has_setup_section",
                         "readme_has_test_instructions" >>
          [] l = 4 -> << "precommit_present", "fast_linter_python",
                         "machine_readable_coverage", "test_splitting",
                         "python_type_hint_coverage", "mypy_strictness" >>
          [] l = 5 -> << "opentelemetry_present", "structured_logging_present",
                         "eval_framework_detect", "golden_dataset_present",
                         "promptfoo_present" >> ]

\* the names the check modules imported by checks/__init__.py register
RegisteredNames ==
    { "agent_manifest_present", "api_schema_defined", "ci_enforces_tests",
      "ci_runs_tests_or_lint", "ci_workflow_present", "clear_error_messages",
      "cli_typed_args", "command_reproducibility", "contract_versioning",
      "contribution_rules_explicit", "dependency_manifest_exists",
      "deterministic_commands", "diataxis_structure", "docstring_coverage_python",
      "documented_commands_present", "entrypoint_clear", "env_example_exists",
      "env_example_or_secrets_docs_present", "eval_framework_detect",
      "fast_linter_python", "file_tree_organized", "flake_awareness_pytest",
      "formatter_config_present", "gitignore_present", "golden_dataset_present",
      "golden_fixtures_present", "linter_config_present", "lockfile_exists",
      "logging_present", "machine_readable_configs", "machine_readable_coverage",
      "make_or_task_runner_exists", "mypy_strictness", "network_mockable",
      "no_global_state_mutation", "no_hardcoded_secrets",
      "no_hidden_critical_logic", "no_implicit_dict_schemas",
      "no_sensitive_files_committed", "opentelemetry_present",
      "package_scripts_or_equivalent", "precommit_present", "predictable_layout",
      "prod_test_boundary", "prompt_secret_scanning", "promptfoo_present",
      "python_type_hint_coverage", "random_seed_injectable", "readme_answers_how",
      "readme_answers_what", "readme_exists", "readme_has_setup_section",
      "readme_has_test_instructions", "return_types_documented",
      "runtime_version_declared", "security_policy_present_or_baseline",
      "sensitive_files_gitignored", "structured_errors_present",
      "structured_logging_present", "test_command_detectable",
      "test_command_has_timeout", "test_coverage_tracked",
      "test_ordering_independent", "test_splitting",
      "tests_directory_or_config_exists", "tests_isolated",
      "tests_no_network_required", "time_abstraction", "typecheck_config_present",
      "typed_interfaces" }

\* test_gate_check_ids_exist_in_registry: the (level, check_id) pairs of
\* GATE_CHECKS whose check_id is not a registered name
missing_checks(registered_checks) ==
    {pair \in (DOMAIN GATE_CHECKS_ALL) \X
                 UNION {Range(GATE_CHECKS_ALL[l]) : l \in DOMAIN GATE_CHECKS_ALL} :
        /\ pair[2] \in Range(GATE_CHECKS_ALL[pair[1]])
        /\ pair[2] \notin registered_checks}

GateLevels == DOMAIN GATE_CHECKS

GateNames == UNION {Range(GATE_CHECKS[l]) : l \in GateLevels}

\* f"level_{level}"
GateKey(level) ==
    CASE level = 1 -> "level_1"
      [] level = 2 -> "level_2"
      [] level = 3 -> "level_3"
      [] level = 4 -> "level_4"
      [] level = 5 -> "level_5"

\* get_all_checks: a copy of the registry
get_all_checks(reg) == [i \in 1..Len(reg) |-> reg[i]]

\* get_all_checks returning `_CHECK_REGISTRY`
ReturnsLiveTableItself == TRUE

\* whether the object get_all_checks returns is the registry dict itself
\* (it is `_CHECK_REGISTRY.copy()`, a dict of its own)
ReturnsLiveTable == FALSE

\* `_CHECK_REGISTRY[name] = ...` keeping an entry the name already has
RegisterKeepFirst(reg, definition) ==
    IF \E i \in 1..Len(reg) : reg[i].name = definition.name
    THEN reg
    ELSE Append(reg, definition)

\* the check decorator: `_CHECK_REGISTRY[name] = CheckDefinition(...)`; a dict
\* keeps the place of a key that is assigned again
Register(reg, definition) ==
    IF \E i \in 1..Len(reg) : reg[i].name = definition.name
    THEN [i \in 1..Len(reg) |->
            IF reg[i].name = definition.name THEN definition ELSE reg[i]]
    ELSE Append(reg, definition)

\* definitions of check modules the package does not import on its own
\* (checks/telemetry.py, checks/verification.py): registered when an embedding
\* imports the module
LateDefinitions ==
    { CheckDefinition("opentelemetry_present", "observability",
                      "telemetry_tracing", "", FromInt(2), <<5>>),
      CheckDefinition("structured_logging_present", "observability",
                      "structured_logging_cost", "", Rat(3, 2), <<5>>),
      CheckDefinition("machine_readable_coverage", "test_feedback_loop",
                      "verification_trust", "", Rat(3, 2), <<4>>) }

\* the same definitions by module, in the order of the decorators of each
LateModules ==
    { << CheckDefinition("opentelemetry_present", "observability",
                         "telemetry_tracing", "", FromInt(2), <<5>>),
         CheckDefinition("structured_logging_present", "observability",
                         "structured_logging_cost", "", Rat(3, 2), <<5>>) >>,
      << CheckDefinition("machine_readable_coverage", "test_feedback_loop",
                         "verification_trust", "", Rat(3, 2), <<4>>) >> }

\* the decorators of a module run in order when the module is imported
RECURSIVE RegisterAll(_, _)
RegisterAll(reg, definitions) ==
    IF definitions = <<>> THEN reg
    ELSE RegisterAll(Register(reg, Head(definitions)), Tail(definitions))

----------------------------------------------------------------------------
(* Probes and the check runner (checks/base.py) *)

Suggestion(name) ==
    CASE name = "promptfoo_present"         -> "Add a promptfoo configuration"
      [] name = "ci_workflow_present"       -> "Add a CI workflow"
      [] name = "lockfile_exists"           -> "Add a lockfile"
      [] name = "readme_has_setup_section"  -> "Add a setup section to the README"
      [] name = "precommit_present"         -> "Add a pre-commit configuration"
      [] name = "typed_interfaces"          -> "Add typed interfaces"
      [] name = "readme_answers_what"       -> "Say what the project is in the README"
      [] name = "opentelemetry_present"     -> "Add OpenTelemetry instrumentation"
      [] name = "machine_readable_coverage" -> "Emit machine-readable coverage"
      [] OTHER                              -> "Fix the check"

\* What a probe can do on some repository: return a checks.base.CheckResult
\* (passed, partial, evidence, suggestion) or raise.
ProbeOutcomes(name) ==
    { [kind |-> "return", passed |-> TRUE, partial |-> FALSE,
       evidence |-> "found", suggestion |-> ""],
      [kind |-> "return", passed |-> TRUE, partial |-> TRUE,
       evidence |-> "found", suggestion |-> ""],
      [kind |-> "return", passed |-> FALSE, partial |-> TRUE,
       evidence |-> "partly found", suggestion |-> Suggestion(name)],
      [kind |-> "return", passed |-> FALSE, partial |-> FALSE,
       evidence |-> "", suggestion |-> Suggestion(name)],
      [kind |-> "raise", passed |-> FALSE, partial |-> FALSE,
       evidence |-> "PermissionError", suggestion |-> ""] }

\* models.CheckResult(...): the model class has the fields name, category, status,
\* evidence, suggestion, weight, pillar and gate_level; keyword arguments it does
\* not declare (gate_for, confidence) are dropped and gate_level keeps its default.
ModelCheckResult(name, category, pillar, status, evidence, suggestion, weight, gate_for) ==
    [ name |-> name, category |-> category, status |-> status,
      evidence |-> evidence, suggestion |-> suggestion, weight |-> weight,
      pillar |-> pillar, gate_level |-> None ]

\* CheckResult.to_model
to_model(res, name, category, pillar, weight, gate_for) ==
    LET status == IF res.passed THEN "passed"
                  ELSE IF res.partial THEN "partial"
                  ELSE "failed"
    IN  ModelCheckResult(name, category, pillar, status, res.evidence,
                         res.suggestion, weight, gate_for)

\* run_check: the probe's outcome converted, an exception turned into unknown
run_check(check_def, outcome) ==
    IF outcome.kind = "return"
    THEN to_model(outcome, check_def.name, check_def.category, check_def.pillar,
                  check_def.weight, check_def.gate_for)
    ELSE ModelCheckResult(check_def.name, check_def.category, check_def.pillar,
                          "unknown", "Check failed with error: PermissionError",
                          "Investigate the error and ensure the repository is accessible.",
                          check_def.weight, check_def.gate_for)

\* CheckResult.passed
Passed(check_result) == check_result.status = "passed"

----------------------------------------------------------------------------
(* Scoring functions (models.py) *)

\* get_level_for_score
get_level_for_score(score) ==
    IF RatLE(score, FromInt(5)) THEN "Human-Only Repo"
    ELSE IF RatLE(score, FromInt(9)) THEN "Assisted Agent"
    ELSE IF RatLE(score, FromInt(13)) THEN "Semi-Autonomous"
    ELSE "Agent-Ready Factory"

\* get_maturity_for_score
get_maturity_for_score(score) ==
    IF RatLE(score, FromInt(4)) THEN 1
    ELSE IF RatLE(score, FromInt(7)) THEN 2
    ELSE IF RatLE(score, FromInt(11)) THEN 3
    ELSE IF RatLE(score, FromInt(14)) THEN 4
    ELSE 5

\* the body of calculate_maturity_with_gates' loop, for level, level-1, ..., 3
RECURSIVE GateWalk(_, _, _)
GateWalk(level, max_gate_level, gates) ==
    IF level <= 2 THEN max_gate_level
    ELSE GateWalk(level - 1,
                  IF GateKey(level) \in DOMAIN gates /\ ~gates[GateKey(level)].passed
                  THEN level - 1
                  ELSE max_gate_level,
                  gates)

Max(a, b) == IF a >= b THEN a ELSE b

\* calculate_maturity_with_gates looking only at the gate of the score-based level
calculate_maturity_with_gates_top_only(score_based_level, gates) ==
    Max(1, IF score_based_level > 2
              /\ GateKey(score_based_level) \in DOMAIN gates
              /\ ~gates[GateKey(score_based_level)].passed
           THEN score_based_level - 1
           ELSE score_based_level)

\* calculate_maturity_with_gates walking down from level 5 whatever the score
calculate_maturity_with_gates_ignore_score(score_based_level, gates) ==
    Max(1, GateWalk(5, 5, gates))

\* calculate_maturity_with_gates
calculate_maturity_with_gates(score_based_level, gates) ==
    Max(1, GateWalk(score_based_level, score_based_level, gates))

\* get_maturity_name
get_maturity_name(level) ==
    IF level \in DOMAIN MATURITY_NAMES THEN MATURITY_NAMES[level] ELSE "Unknown"

\* get_grade_for_score with strict comparisons
get_grade_for_score_strict(score) ==
    IF RatLT(FromInt(90), score) THEN "Agent-First"
    ELSE IF RatLT(FromInt(75), score) THEN "Agent-Compatible"
    ELSE IF RatLT(FromInt(60), score) THEN "Human-First, Agent-Risky"
    ELSE "Agent-Hostile"

\* get_grade_for_score
get_grade_for_score(score) ==
    IF RatGE(score, FromInt(90)) THEN "Agent-First"
    ELSE IF RatGE(score, FromInt(75)) THEN "Agent-Compatible"
    ELSE IF RatGE(score, FromInt(60)) THEN "Human-First, Agent-Risky"
    ELSE "Agent-Hostile"

\* calculate_domain_score returning the pass fraction, not the percentage
calculate_domain_score_fraction(passed, total) ==
    IF total = 0 THEN FromInt(0) ELSE TrueDiv(passed, total)

\* calculate_domain_score without the guard for an empty domain
calculate_domain_score_unguarded(passed, total) ==
    Times(TrueDiv(passed, total), FromInt(100))

\* calculate_domain_score
calculate_domain_score(passed, total) ==
    IF total = 0 THEN FromInt(0)
    ELSE Times(TrueDiv(passed, total), FromInt(100))

\* DOMAIN_WEIGHTS.get(domain_name, 0.0)
DefaultWeight(domain_name) ==
    IF domain_name \in DOMAIN DOMAIN_WEIGHTS THEN DOMAIN_WEIGHTS[domain_name]
    ELSE FromInt(0)

\* the weight read from the DomainScore object alone
OverallWeightFromField(domain_name, domain) == domain.weight

\* the weight calculate_overall_score gives a domain
OverallWeight(domain_name, domain) == DefaultWeight(domain_name)

\* the keys of a dict in the given order
Keys(order, dict) == SelectIn(order, DOMAIN dict)

\* an overall score that divides by the weights of the domains present, giving
\* the weight of an absent domain to the others
calculate_overall_score_redistributing(order, domain_scores) ==
    LET weighted == [d \in DOMAIN domain_scores |->
                        Times(domain_scores[d].score, OverallWeight(d, domain_scores[d]))]
        keys == Keys(order, domain_scores)
        present == SumSeq([i \in 1..Len(keys) |-> DefaultWeight(keys[i])])
    IN  [ domains |-> [d \in DOMAIN domain_scores |->
                          [domain_scores[d] EXCEPT !.weighted_score = weighted[d]]],
          total |-> IF present.n = 0 THEN FromInt(0)
                    ELSE Times(SumSeq([i \in 1..Len(keys) |-> weighted[keys[i]]]),
                               Rat(present.d, present.n)) ]

\* calculate_overall_score: the domains with weighted_score set, and the total
calculate_overall_score(order, domain_scores) ==
    LET weighted == [d \in DOMAIN domain_scores |->
                        Times(domain_scores[d].score, OverallWeight(d, domain_scores[d]))]
        keys == Keys(order, domain_scores)
    IN  [ domains |-> [d \in DOMAIN domain_scores |->
                          [domain_scores[d] EXCEPT !.weighted_score = weighted[d]]],
          total |-> SumSeq([i \in 1..Len(keys) |-> weighted[keys[i]]]) ]

\* calculate_gates counting a check without a result as passed
calculate_gates_skipping_unexecuted(cr) ==
    [ key \in {GateKey(l) : l \in GateLevels} |->
        LET level == CHOOSE l \in GateLevels : GateKey(l) = key
            required_checks == GATE_CHECKS[level]
            failed_checks == SelectSeq(required_checks,
                                 LAMBDA n : ~(IF n \in DOMAIN cr THEN cr[n] ELSE TRUE))
        IN  [ level |-> level,
              passed |-> Len(failed_checks) = 0,
              required_checks |-> required_checks,
              failed_checks |-> failed_checks ] ]

\* calculate_gates leaving GateStatus.passed at its default
calculate_gates_default_passed(cr) ==
    [ key \in {GateKey(l) : l \in GateLevels} |->
        LET level == CHOOSE l \in GateLevels : GateKey(l) = key
            required_checks == GATE_CHECKS[level]
            failed_checks == SelectSeq(required_checks,
                                 LAMBDA n : ~(IF n \in DOMAIN cr THEN cr[n] ELSE FALSE))
        IN  [ level |-> level,
              passed |-> TRUE,
              required_checks |-> required_checks,
              failed_checks |-> failed_checks ] ]

\* calculate_gates
calculate_gates(cr) ==
    [ key \in {GateKey(l) : l \in GateLevels} |->
        LET level == CHOOSE l \in GateLevels : GateKey(l) = key
            required_checks == GATE_CHECKS[level]
            failed_checks == SelectSeq(required_checks,
                                 LAMBDA n : ~(IF n \in DOMAIN cr THEN cr[n] ELSE FALSE))
        IN  [ level |-> level,
              passed |-> Len(failed_checks) = 0,
              required_checks |-> required_checks,
              failed_checks |-> failed_checks ] ]

----------------------------------------------------------------------------
(* Configuration (models.AuditConfig) *)

\* dict.get(key): the entry, or None
Get(dict, key) == IF key \in DOMAIN dict THEN dict[key] ELSE None

CategoryConfig(enabled, max_points) == [enabled |-> enabled, max_points |-> max_points]
CheckConfig(enabled, weight) == [enabled |-> enabled, weight |-> weight]
DomainConfig(enabled, weight) == [enabled |-> enabled, weight |-> weight]

\* AuditConfig.scale_points_total
scale_points_total == 16

\* AuditConfig.default(): every category with 2 points, every domain with its
\* DOMAIN_WEIGHTS weight, no per-check entries
DefaultConfig ==
    [ categories |-> [c \in Range(CATEGORY_ORDER) |-> CategoryConfig(TRUE, FromInt(2))],
      domains    |-> [d \in Range(DOMAIN_ORDER) |-> DomainConfig(TRUE, DOMAIN_WEIGHTS[d])],
      checks     |-> <<>> ]

\* The configurations scanned: the default and every configuration that differs
\* from it in one entry (parse_config writes such entries over the default).
Configs ==
    {DefaultConfig}
    \cup {[DefaultConfig EXCEPT !.checks = (n :> CheckConfig(FALSE, FromInt(1)))] :
            n \in CheckNames}
    \cup {[DefaultConfig EXCEPT !.checks = (n :> CheckConfig(TRUE, FromInt(3)))] :
            n \in {"ci_workflow_present", "readme_answers_what"}}
    \cup {[DefaultConfig EXCEPT !.categories[c] = CategoryConfig(FALSE, FromInt(2))] :
            c \in Range(CATEGORY_ORDER)}
    \cup {[DefaultConfig EXCEPT !.categories[c] = CategoryConfig(TRUE, FromInt(m))] :
            c \in {"discoverability", "ci_enforcement"}, m \in {0, 1}}
    \cup {[DefaultConfig EXCEPT !.domains[d] = DomainConfig(FALSE, DOMAIN_WEIGHTS[d])] :
            d \in Range(DOMAIN_ORDER)}

----------------------------------------------------------------------------
(* scan_repo (scanner.py) *)

ReadinessLevelDefault == "Human-Only Repo"

\* RepoResult(repo_path=..., repo_name=...) with the model class's defaults
RepoResult ==
    [ score_total |-> FromInt(0), max_score |-> FromInt(16),
      level |-> ReadinessLevelDefault, maturity_level |-> 1,
      maturity_name |-> "Functional",
      category_scores |-> <<>>, pillar_scores |-> <<>>, gates |-> <<>>,
      failed_checks |-> <<>>, passed_checks |-> <<>>, fix_first |-> <<>>,
      domain_scores |-> <<>>, overall_score |-> FromInt(0),
      grade |-> "Agent-Hostile", remediation_items |-> <<>> ]

CategoryScore(name, max_points) ==
    [ name |-> name, score |-> FromInt(0), max_points |-> max_points,
      checks |-> <<>>, passed_checks |-> 0, total_checks |-> 0 ]

PillarScore(name, max_points) ==
    [ name |-> name, score |-> FromInt(0), max_points |-> max_points,
      checks |-> <<>>, passed_checks |-> 0, total_checks |-> 0 ]

DomainScore(name, weight) ==
    [ name |-> name, score |-> FromInt(0), weight |-> weight,
      weighted_score |-> FromInt(0), checks |-> <<>>, passed_checks |-> 0,
      total_checks |-> 0, evidence |-> <<>>, red_flags |-> <<>> ]

\* `cfg and not cfg.enabled` on the entry a config dict holds for key
Disabled(dict, key) == key \in DOMAIN dict /\ ~dict[key].enabled

\* scan_repo up to the loop: the score buckets of a fresh RepoResult
InitBuckets(cfg) ==
    [ RepoResult EXCEPT
        !.category_scores =
            [c \in {c \in Range(CATEGORY_ORDER) : ~Disabled(cfg.categories, c)} |->
                CategoryScore(c, IF c \in DOMAIN cfg.categories
                                 THEN cfg.categories[c].max_points
                                 ELSE FromInt(2))],
        !.pillar_scores =
            [p \in Range(PILLAR_ORDER) |-> PillarScore(p, FromInt(2))],
        !.domain_scores =
            [d \in {d \in Range(DOMAIN_ORDER) : ~Disabled(cfg.domains, d)} |->
                DomainScore(d, DefaultWeight(d))] ]

\* the loop consulting the check's own entry only
IsEnabledCheckOnly(cfg, check_def) == ~Disabled(cfg.checks, check_def.name)

\* whether the loop of scan_repo runs a check under a configuration
IsEnabled(cfg, check_def) ==
    /\ ~Disabled(cfg.checks, check_def.name)
    /\ ~Disabled(cfg.categories, check_def.category)

\* a category bucket that lists a partial result among the passed checks
AddToCategoryPartialAsPassed(res, check_def, r) ==
    LET cat == check_def.category
        listed == Passed(r) \/ r.status = "partial"
    IN  IF cat \in DOMAIN res.category_scores
        THEN [ res EXCEPT
                 !.category_scores[cat].checks = Append(@, r),
                 !.category_scores[cat].total_checks = @ + 1,
                 !.category_scores[cat].passed_checks = IF Passed(r) THEN @ + 1 ELSE @,
                 !.passed_checks = IF listed THEN Append(@, r) ELSE @,
                 !.failed_checks = IF listed THEN @ ELSE Append(@, r) ]
        ELSE res

\* a category bucket that counts each check as many times as its weight
AddToCategoryWeighted(res, check_def, r) ==
    LET cat == check_def.category
    IN  IF cat \in DOMAIN res.category_scores
        THEN [ res EXCEPT
                 !.category_scores[cat].checks = Append(@, r),
                 !.category_scores[cat].total_checks = @ + r.weight.n,
                 !.category_scores[cat].passed_checks =
                     IF Passed(r) THEN @ + r.weight.n ELSE @,
                 !.passed_checks = IF Passed(r) THEN Append(@, r) ELSE @,
                 !.failed_checks = IF Passed(r) THEN @ ELSE Append(@, r) ]
        ELSE res

\* "Add to category"
AddToCategory(res, check_def, r) ==
    LET cat == check_def.category
    IN  IF cat \in DOMAIN res.category_scores
        THEN [ res EXCEPT
                 !.category_scores[cat].checks = Append(@, r),
                 !.category_scores[cat].total_checks = @ + 1,
                 !.category_scores[cat].passed_checks = IF Passed(r) THEN @ + 1 ELSE @,
                 !.passed_checks = IF Passed(r) THEN Append(@, r) ELSE @,
                 !.failed_checks = IF Passed(r) THEN @ ELSE Append(@, r) ]
        ELSE res

\* check_def.pillar or check_def.category
PillarName(check_def) ==
    IF check_def.pillar # "" THEN check_def.pillar ELSE check_def.category

\* "Add to pillar"
AddToPillar(res, check_def, r) ==
    LET pillar_name == PillarName(check_def)
    IN  IF pillar_name \in DOMAIN res.pillar_scores
        THEN [ res EXCEPT
                 !.pillar_scores[pillar_name].checks = Append(@, check_def.name),
                 !.pillar_scores[pillar_name].total_checks = @ + 1,
                 !.pillar_scores[pillar_name].passed_checks =
                     IF Passed(r) THEN @ + 1 ELSE @ ]
        ELSE res

\* the domain resolved with the pillar table consulted before the check's own domain
ResolveDomainPillarFirst(check_def) ==
    LET pillar_name == PillarName(check_def)
    IN  IF pillar_name # "" /\ pillar_name \in DOMAIN PILLAR_TO_DOMAIN
        THEN PILLAR_TO_DOMAIN[pillar_name]
        ELSE IF check_def.domain = "" /\ check_def.category \in DOMAIN CATEGORY_TO_DOMAIN
        THEN CATEGORY_TO_DOMAIN[check_def.category]
        ELSE check_def.domain

\* the domain a check is filed under: its own, else by pillar, else by category
ResolveDomain(check_def) ==
    LET pillar_name == PillarName(check_def)
    IN  IF check_def.domain = "" /\ pillar_name # ""
           /\ pillar_name \in DOMAIN PILLAR_TO_DOMAIN
        THEN PILLAR_TO_DOMAIN[pillar_name]
        ELSE IF check_def.domain = "" /\ check_def.category \in DOMAIN CATEGORY_TO_DOMAIN
        THEN CATEGORY_TO_DOMAIN[check_def.category]
        ELSE check_def.domain

\* a domain bucket whose total_checks counts the passed checks only
AddToDomainCountingPassed(res, check_def, r) ==
    LET domain_name == ResolveDomain(check_def)
    IN  IF domain_name # "" /\ domain_name \in DOMAIN res.domain_scores
        THEN [ res EXCEPT
                 !.domain_scores[domain_name].checks = Append(@, r),
                 !.domain_scores[domain_name].total_checks =
                     IF Passed(r) THEN @ + 1 ELSE @,
                 !.domain_scores[domain_name].passed_checks =
                     IF Passed(r) THEN @ + 1 ELSE @ ]
        ELSE res

\* "Add to domain"
AddToDomain(res, check_def, r) ==
    LET domain_name == ResolveDomain(check_def)
    IN  IF domain_name # "" /\ domain_name \in DOMAIN res.domain_scores
        THEN [ res EXCEPT
                 !.domain_scores[domain_name].checks = Append(@, r),
                 !.domain_scores[domain_name].total_checks = @ + 1,
                 !.domain_scores[domain_name].passed_checks =
                     IF Passed(r) THEN @ + 1 ELSE @,
                 !.domain_scores[domain_name].evidence =
                     IF Passed(r) /\ r.evidence # "" THEN Append(@, r.evidence) ELSE @,
                 !.domain_scores[domain_name].red_flags =
                     IF ~Passed(r) /\ r.suggestion # "" THEN Append(@, r.suggestion)
                     ELSE @ ]
        ELSE res

\* one executed check filed into its category, pillar and domain
FileResult(res, check_def, r) ==
    AddToDomain(AddToPillar(AddToCategory(res, check_def, r), check_def, r), check_def, r)

\* "Apply weight override if configured"
ApplyWeight(cfg, check_name, r) ==
    IF check_name \in DOMAIN cfg.checks
    THEN [r EXCEPT !.weight = cfg.checks[check_name].weight]
    ELSE r

\* the bucket score left as the pass ratio, max_points forgotten
BucketScoreNoPoints(b) ==
    IF b.total_checks > 0 THEN TrueDiv(b.passed_checks, b.total_checks) ELSE b.score

\* a bucket scored by the share of its checks that did not pass
BucketScoreOfFailures(b) ==
    IF b.total_checks > 0
    THEN Times(TrueDiv(b.total_checks - b.passed_checks, b.total_checks), b.max_points)
    ELSE b.score

\* a bucket without checks given all its points
BucketScoreFullWhenEmpty(b) ==
    IF b.total_checks > 0
    THEN Times(TrueDiv(b.passed_checks, b.total_checks), b.max_points)
    ELSE b.max_points

\* "Calculate category scores" for one bucket (pillars use the same statement)
BucketScore(b) ==
    IF b.total_checks > 0
    THEN Times(TrueDiv(b.passed_checks, b.total_checks), b.max_points)
    ELSE b.score

\* sum(f(v) for v in dict.values())
SumOver(order, dict, F(_)) ==
    LET keys == Keys(order, dict)
    IN  SumSeq([i \in 1..Len(keys) |-> F(dict[keys[i]])])


\* items appended to recs in order, each only if not yet in recs
RECURSIVE AppendUnique(_, _)
AppendUnique(recs, items) ==
    IF items = <<>> THEN recs
    ELSE AppendUnique(IF Head(items) \in Range(recs) THEN recs
                      ELSE Append(recs, Head(items)),
                      Tail(items))

\* the non-empty suggestions of the checks of a list that did not pass
FailedSuggestions(checks) ==
    LET failing == SelectSeq(checks, LAMBDA c : ~Passed(c) /\ c.suggestion # "")
    IN  [i \in 1..Len(failing) |-> failing[i].suggestion]

\* generate_fix_first, second loop, over FIX_FIRST_PRIORITIES[i..]
RECURSIVE CategoryRecommendations(_, _, _)
CategoryRecommendations(res, recs, i) ==
    IF i > Len(FIX_FIRST_PRIORITIES) THEN recs
    ELSE LET category == FIX_FIRST_PRIORITIES[i]
             next ==
                IF category \in DOMAIN res.category_scores
                   /\ res.category_scores[category].passed_checks
                        < res.category_scores[category].total_checks
                THEN AppendUnique(recs,
                        FailedSuggestions(res.category_scores[category].checks))
                ELSE recs
         IN  CategoryRecommendations(res, next, i + 1)

Min(a, b) == IF a <= b THEN a ELSE b

\* generate_fix_first returning the whole list
generate_fix_first_uncapped(res) ==
    LET next_level == res.maturity_level + 1
        gate_key == GateKey(next_level)
        gate_recs ==
            IF next_level <= 5 /\ gate_key \in DOMAIN res.gates
               /\ ~res.gates[gate_key].passed
            THEN AppendUnique(<<>>,
                    FailedSuggestions(
                        SelectSeq(res.failed_checks,
                            LAMBDA c : c.name \in Range(res.gates[gate_key].failed_checks))))
            ELSE <<>>
    IN  CategoryRecommendations(res, gate_recs, 1)

\* generate_fix_first without its first loop: category order only
generate_fix_first_categories_only(res) ==
    LET recommendations == CategoryRecommendations(res, <<>>, 1)
    IN  SubSeq(recommendations, 1, Min(7, Len(recommendations)))

\* generate_fix_first
generate_fix_first(res) ==
    LET next_level == res.maturity_level + 1
        gate_key == GateKey(next_level)
        gate_recs ==
            IF next_level <= 5 /\ gate_key \in DOMAIN res.gates
               /\ ~res.gates[gate_key].passed
            THEN AppendUnique(<<>>,
                    FailedSuggestions(
                        SelectSeq(res.failed_checks,
                            LAMBDA c : c.name \in Range(res.gates[gate_key].failed_checks))))
            ELSE <<>>
        recommendations == CategoryRecommendations(res, gate_recs, 1)
    IN  SubSeq(recommendations, 1, Min(7, Len(recommendations)))

\* sorted(keys, key=weight, reverse=True): stable, heaviest first
RECURSIVE SortByWeight(_, _)
SortByWeight(keys, dict) ==
    IF keys = <<>> THEN <<>>
    ELSE LET top == CHOOSE k \in Range(keys) :
                        \A j \in Range(keys) : RatGE(dict[k].weight, dict[j].weight)
             w == dict[top].weight
         IN  SelectSeq(keys, LAMBDA k : dict[k].weight = w)
             \o SortByWeight(SelectSeq(keys, LAMBDA k : dict[k].weight # w), dict)

RECURSIVE RemediationFrom(_, _, _)
RemediationFrom(dict, keys, remediation) ==
    IF keys = <<>> THEN remediation
    ELSE RemediationFrom(dict, Tail(keys),
            IF RatGE(dict[Head(keys)].score, FromInt(100)) THEN remediation
            ELSE AppendUnique(remediation, dict[Head(keys)].red_flags))

\* generate_remediation
generate_remediation(res) ==
    RemediationFrom(res.domain_scores,
                    SortByWeight(Keys(DOMAIN_ORDER, res.domain_scores), res.domain_scores),
                    <<>>)

\* "Calculate category scores", "Calculate pillar scores"
ScoreBuckets(res) ==
    [ res EXCEPT
        !.category_scores =
            [c \in DOMAIN res.category_scores |->
                [res.category_scores[c] EXCEPT
                    !.score = BucketScore(res.category_scores[c])]],
        !.pillar_scores =
            [q \in DOMAIN res.pillar_scores |->
                [res.pillar_scores[q] EXCEPT
                    !.score = BucketScore(res.pillar_scores[q])]] ]

\* "Calculate domain scores"
ScoreDomains(domain_scores) ==
    [d \in DOMAIN domain_scores |->
        [domain_scores[d] EXCEPT
            !.score = calculate_domain_score(domain_scores[d].passed_checks,
                                             domain_scores[d].total_checks)]]

\* whether the arithmetic of scan_repo after the loop raises
FinishRaises(res) ==
    \/ \E c \in DOMAIN res.category_scores : ~IsRat(BucketScore(res.category_scores[c]))
    \/ \E q \in DOMAIN res.pillar_scores : ~IsRat(BucketScore(res.pillar_scores[q]))
    \/ \E d \in DOMAIN res.domain_scores :
          ~IsRat(calculate_domain_score(res.domain_scores[d].passed_checks,
                                        res.domain_scores[d].total_checks))

\* scan_repo after the loop: scores, level, gates, maturity, grade, fix lists
Finish(res, cr) ==
    LET scored == ScoreBuckets(res)
        score_total == SumOver(CATEGORY_ORDER, scored.category_scores, LAMBDA cs : cs.score)
        max_score == SumOver(CATEGORY_ORDER, scored.category_scores,
                             LAMBDA cs : cs.max_points)
        gates == calculate_gates(cr)
        score_based_level == get_maturity_for_score(score_total)
        maturity_level == calculate_maturity_with_gates(score_based_level, gates)
        overall == calculate_overall_score(DOMAIN_ORDER, ScoreDomains(res.domain_scores))
        graded ==
            [ scored EXCEPT
                !.score_total = score_total,
                !.max_score = max_score,
                !.level = get_level_for_score(score_total),
                !.gates = gates,
                !.maturity_level = maturity_level,
                !.maturity_name = get_maturity_name(maturity_level),
                !.domain_scores = overall.domains,
                !.overall_score = overall.total,
                !.grade = get_grade_for_score(overall.total) ]
        fixed == [graded EXCEPT !.fix_first = generate_fix_first(graded)]
    IN  [fixed EXCEPT !.remediation_items = generate_remediation(fixed)]

----------------------------------------------------------------------------
(* The scan as a state machine *)

NonPassed == {n \in DOMAIN check_results : ~check_results[n]}

\* a field of dict d set or added
Put(d, k, v) == [x \in DOMAIN d \cup {k} |-> IF x = k THEN v ELSE d[x]]

Init ==
    /\ mode = "scan"
    /\ config \in Configs
    /\ registry = Registry
    /\ all_checks = <<>>
    /\ pc = "idle"
    /\ idx = 0
    /\ check_results = <<>>
    /\ returned = <<>>
    /\ result = RepoResult
    /\ fn_in = None
    /\ fn_out = None

\* scan_repo entered: buckets initialised, registry snapshot taken
ScanStart ==
    /\ mode = "scan"
    /\ pc = "idle"
    /\ result' = InitBuckets(config)
    /\ all_checks' = get_all_checks(registry)
    /\ check_results' = <<>>
    /\ returned' = <<>>
    /\ idx' = 0
    /\ pc' = "loop"
    /\ UNCHANGED <<config, registry, mode, fn_in, fn_out>>

\* one iteration of the loop that ends in `continue`
ScanSkip ==
    /\ pc = "loop"
    /\ idx < Len(all_checks)
    /\ ~IsEnabled(config, all_checks[idx + 1])
    /\ idx' = idx + 1
    /\ UNCHANGED <<config, registry, all_checks, pc, check_results, returned, result,
                   mode, fn_in, fn_out>>

\* one iteration of the loop that runs the check and files its result
ScanRun ==
    /\ pc = "loop"
    /\ idx < Len(all_checks)
    /\ IsEnabled(config, all_checks[idx + 1])
    /\ \E outcome \in ProbeOutcomes(all_checks[idx + 1].name) :
          /\ outcome.passed \/ Cardinality(NonPassed) < MaxNonPassed
          /\ LET check_def == all_checks[idx + 1]
                 ran == run_check(check_def, outcome)
                 check_result == ApplyWeight(config, check_def.name, ran)
             IN  /\ returned' = Put(returned, check_def.name,
                                         [outcome |-> outcome.kind, result |-> ran])
                 /\ check_results' = Put(check_results, check_def.name, Passed(check_result))
                 /\ result' = FileResult(result, check_def, check_result)
    /\ idx' = idx + 1
    /\ UNCHANGED <<config, registry, all_checks, pc, mode, fn_in, fn_out>>

\* the rest of scan_repo once the loop is over: it returns the RepoResult, or an
\* exception of its arithmetic propagates to the caller
ScanFinish ==
    /\ pc = "loop"
    /\ idx = Len(all_checks)
    /\ IF FinishRaises(result)
       THEN pc' = "raised" /\ result' = result
       ELSE pc' = "done" /\ result' = Finish(result, check_results)
    /\ UNCHANGED <<config, registry, all_checks, idx, check_results, returned,
                   mode, fn_in, fn_out>>

Next == ScanStart \/ ScanSkip \/ ScanRun \/ ScanFinish

Spec == Init /\ [][Next]_vars

----------------------------------------------------------------------------
(* The scoring functions called directly *)

\* the state of the scan variables while a scoring function is called on its own
NoScan ==
    /\ config = DefaultConfig
    /\ registry = Registry
    /\ all_checks = <<>>
    /\ idx = 0
    /\ check_results = <<>>
    /\ returned = <<>>
    /\ result = RepoResult

\* a total score and a pass/fail outcome for every gate check
InitMaturity ==
    /\ mode = "maturity"
    /\ pc = "call"
    /\ fn_in \in [ score : {Rat(h, 2) : h \in 0..MaxScoreHalves},
                   check_results : [GateNames -> BOOLEAN] ]
    /\ fn_out = None
    /\ NoScan

\* get_maturity_for_score, calculate_gates and calculate_maturity_with_gates as
\* scan_repo chains them
CallMaturity ==
    /\ mode = "maturity"
    /\ pc = "call"
    /\ LET score_based_level == get_maturity_for_score(fn_in.score)
           gates == calculate_gates(fn_in.check_results)
       IN  fn_out' = [ score_based_level |-> score_based_level,
                       gates |-> gates,
                       maturity_level |->
                           calculate_maturity_with_gates(score_based_level, gates) ]
    /\ pc' = "returned"
    /\ UNCHANGED <<config, registry, all_checks, idx, check_results, returned, result,
                   mode, fn_in>>

SpecMaturity == (Init \/ InitMaturity) /\ [][Next \/ CallMaturity]_vars

\* the weights a caller may have put on the DomainScore objects
WeightProfiles == {"default", "unset", "custom"}

ProfileWeight(profile, d) ==
    CASE profile = "default" -> DOMAIN_WEIGHTS[d]
      [] profile = "unset"   -> FromInt(0)
      [] profile = "custom"  -> Rat(1, 2)

\* a dict of DomainScore objects over some of the six domains
InitOverall ==
    /\ mode = "overall"
    /\ pc = "call"
    /\ \E S \in SUBSET Range(DOMAIN_ORDER), profile \in WeightProfiles :
          \E scores \in [S -> {Rat(100 * k, ScoreSteps) : k \in 0..ScoreSteps}] :
             fn_in = [d \in S |->
                        [DomainScore(d, ProfileWeight(profile, d))
                            EXCEPT !.score = scores[d]]]
    /\ fn_out = None
    /\ NoScan

\* calculate_overall_score
CallOverall ==
    /\ mode = "overall"
    /\ pc = "call"
    /\ fn_out' = calculate_overall_score(DOMAIN_ORDER, fn_in)
    /\ pc' = "returned"
    /\ UNCHANGED <<config, registry, all_checks, idx, check_results, returned, result,
                   mode, fn_in>>

SpecOverall == InitOverall /\ [][CallOverall]_vars

\* an overall score
InitGrade ==
    /\ mode = "grade"
    /\ pc = "call"
    /\ fn_in \in {Rat(t, 10) : t \in 0..MaxGradeTenths}
    /\ fn_out = None
    /\ NoScan

\* get_grade_for_score
CallGrade ==
    /\ mode = "grade"
    /\ pc = "call"
    /\ fn_out' = get_grade_for_score(fn_in)
    /\ pc' = "returned"
    /\ UNCHANGED <<config, registry, all_checks, idx, check_results, returned, result,
                   mode, fn_in>>

SpecGrade == (Init \/ InitGrade) /\ [][Next \/ CallGrade]_vars

\* pillars and domains a check definition may name: unset, table entries, and a
\* name no table knows
SomePillars == {"", "fast_guardrails", "agentic_security", "custom_pillar"}
SomeDomains == {"", "testing", "structure", "custom_domain"}

\* a check definition of any category, pillar and domain, a configuration with at
\* most one domain disabled, and what the check's probe did
InitFile ==
    /\ mode = "file"
    /\ pc = "call"
    /\ \E category \in Range(CATEGORY_ORDER), pillar \in SomePillars,
          domain \in SomeDomains, cfg \in Configs :
          /\ cfg.checks = <<>>
          /\ cfg.categories = DefaultConfig.categories
          /\ \E outcome \in ProbeOutcomes("some_check") :
                /\ outcome.passed = ~outcome.partial
                /\ fn_in = [ check_def |-> CheckDefinition("some_check", category, pillar,
                                                          domain, FromInt(1), <<>>),
                             config |-> cfg,
                             outcome |-> outcome ]
    /\ fn_out = None
    /\ NoScan

\* one iteration of scan_repo's loop on a fresh RepoResult
CallFile ==
    /\ mode = "file"
    /\ pc = "call"
    /\ fn_out' = FileResult(InitBuckets(fn_in.config), fn_in.check_def,
                            ApplyWeight(fn_in.config, fn_in.check_def.name,
                                        run_check(fn_in.check_def, fn_in.outcome)))
    /\ pc' = "returned"
    /\ UNCHANGED <<config, registry, all_checks, idx, check_results, returned, result,
                   mode, fn_in>>

SpecFile == (Init \/ InitFile) /\ [][Next \/ CallFile]_vars

\* a loop that ends at the first check that does not pass
RECURSIVE ScanLoopStoppingAtFailure(_, _, _, _, _)
ScanLoopStoppingAtFailure(cfg, checks, outcomes, res, cr) ==
    IF checks = <<>> THEN [result |-> res, check_results |-> cr]
    ELSE LET check_def == Head(checks)
             check_result ==
                 ApplyWeight(cfg, check_def.name,
                             run_check(check_def, outcomes[check_def.name]))
         IN  IF ~Passed(check_result)
             THEN [result |-> FileResult(res, check_def, check_result),
                   check_results |-> Put(cr, check_def.name, FALSE)]
             ELSE ScanLoopStoppingAtFailure(cfg, Tail(checks), outcomes,
                               FileResult(res, check_def, check_result),
                               Put(cr, check_def.name, TRUE))

\* scan_repo's loop over the remaining checks, the probes doing what outcomes says
RECURSIVE ScanLoop(_, _, _, _, _)
ScanLoop(cfg, checks, outcomes, res, cr) ==
    IF checks = <<>> THEN [result |-> res, check_results |-> cr]
    ELSE LET check_def == Head(checks)
         IN  IF ~IsEnabled(cfg, check_def)
             THEN ScanLoop(cfg, Tail(checks), outcomes, res, cr)
             ELSE LET check_result ==
                          ApplyWeight(cfg, check_def.name,
                                      run_check(check_def, outcomes[check_def.name]))
                  IN  ScanLoop(cfg, Tail(checks), outcomes,
                               FileResult(res, check_def, check_result),
                               Put(cr, check_def.name, Passed(check_result)))

\* scan_repo from entry to return
scan_repo(cfg, checks, outcomes) ==
    LET looped == ScanLoop(cfg, checks, outcomes, InitBuckets(cfg), <<>>)
    IN  Finish(looped.result, looped.check_results)

\* what the probe of a check can do on a repository
OutcomeKinds == {"pass", "fail", "raise"}

\* the probe's outcome of a kind: it passes, fails with its suggestion, or raises
OutcomeOf(name, kind) ==
    CHOOSE o \in ProbeOutcomes(name) :
        /\ o.passed = o.partial
        /\ o.passed = (kind = "pass")
        /\ (o.kind = "raise") = (kind = "raise")

\* a repository given by what each registered probe does on it, default configuration
InitRepo ==
    /\ mode = "repo"
    /\ pc = "call"
    /\ \E kinds \in [CheckNames -> OutcomeKinds] :
          fn_in = [config |-> DefaultConfig,
                   outcomes |-> [n \in CheckNames |-> OutcomeOf(n, kinds[n])]]
    /\ fn_out = None
    /\ NoScan

\* scan_repo on that repository
CallRepo ==
    /\ mode = "repo"
    /\ pc = "call"
    /\ fn_out' = scan_repo(fn_in.config, get_all_checks(registry), fn_in.outcomes)
    /\ pc' = "returned"
    /\ UNCHANGED <<config, registry, all_checks, idx, check_results, returned, result,
                   mode, fn_in>>

SpecRepo == InitRepo /\ [][CallRepo]_vars

\* the definitions the check modules give two names of Registry, in the imported
\* module and in the one that is not, and a name Registry does not hold
SomeDefinitions ==
    {d \in Range(Registry) :
        d.name \in {"opentelemetry_present", "machine_readable_coverage"}}
    \cup LateDefinitions

\* the registry as the module creates it, `_CHECK_REGISTRY = {}`; fn_in records
\* the registrations made since, in order
InitRegister ==
    /\ mode = "register"
    /\ pc = "call"
    /\ registry = <<>>
    /\ fn_in = <<>>
    /\ fn_out = None
    /\ config = DefaultConfig
    /\ all_checks = <<>>
    /\ idx = 0
    /\ check_results = <<>>
    /\ returned = <<>>
    /\ result = RepoResult

\* one application of the check decorator
CallRegister ==
    /\ mode = "register"
    /\ Len(fn_in) < MaxRegistrations
    /\ \E definition \in SomeDefinitions :
          /\ registry' = Register(registry, definition)
          /\ fn_in' = Append(fn_in, definition)
    /\ UNCHANGED <<config, all_checks, pc, idx, check_results, returned, result,
                   mode, fn_out>>

SpecRegister == InitRegister /\ [][CallRegister]_vars

\* a process under the default configuration that scans, or takes a snapshot of
\* the registry for itself, while check modules are still being imported
InitSnapshot ==
    /\ Init
    /\ config \in {DefaultConfig,
                    [DefaultConfig EXCEPT
                        !.checks = ("promptfoo_present" :> CheckConfig(FALSE, FromInt(1)))]}

\* a module of LateModules is imported (Python imports a module once): its
\* decorators register its checks.  Were get_all_checks to return the registry
\* itself, the holder of its return value would see the registrations.
LateRegister ==
    /\ mode = "scan"
    /\ \E module \in LateModules :
          /\ Head(module) \notin Range(registry)
          /\ registry' = RegisterAll(registry, module)
    /\ all_checks' = IF ReturnsLiveTable /\ pc # "idle" THEN registry' ELSE all_checks
    /\ UNCHANGED <<config, pc, idx, check_results, returned, result, mode,
                   fn_in, fn_out>>

\* the embedding calls get_all_checks itself and keeps the dict it returns
TakeSnapshot ==
    /\ mode = "scan"
    /\ pc = "idle"
    /\ pc' = "held"
    /\ all_checks' = get_all_checks(registry)
    /\ UNCHANGED <<config, registry, idx, check_results, returned, result, mode,
                   fn_in, fn_out>>

\* the embedding deletes the first entry of the dict it holds
MutateSnapshot ==
    /\ mode = "scan"
    /\ pc = "held"
    /\ Len(all_checks) > 0
    /\ pc' = "mutated"
    /\ all_checks' = Tail(all_checks)
    /\ registry' = IF ReturnsLiveTable THEN all_checks' ELSE registry
    /\ UNCHANGED <<config, idx, check_results, returned, result, mode, fn_in, fn_out>>

SpecSnapshot ==
    InitSnapshot /\ [][Next \/ LateRegister \/ TakeSnapshot \/ MutateSnapshot]_vars

\* orders in which the registry may hold the same checks (the order of the
\* registrations, that is of the imports)
Orders == {"as_registered", "reversed", "rotated", "swapped"}

RECURSIVE Reverse(_)
Reverse(s) == IF s = <<>> THEN <<>> ELSE Append(Reverse(Tail(s)), Head(s))

Reordered(checks, order) ==
    CASE order = "as_registered" -> checks
      [] order = "reversed"      -> Reverse(checks)
      [] order = "rotated"       -> Append(Tail(checks), Head(checks))
      [] order = "swapped"       -> <<checks[2], checks[1]>> \o Tail(Tail(checks))

\* RepoResult(...) stamps scanned_at with datetime.now() when scan_repo creates it
Scanned(res, now) == [result |-> res, scanned_at |-> now]

\* one repository (each probe passes or fails), scanned twice under the default
\* configuration: the clock readings of the two scans and the order in which the
\* second scan finds the checks
InitTwice ==
    /\ mode = "twice"
    /\ pc = "call"
    /\ \E kinds \in [CheckNames -> {"pass", "fail"}], order \in Orders,
          now1 \in 0..MaxClock, now2 \in 0..MaxClock :
          fn_in = [config |-> DefaultConfig,
                   outcomes |-> [n \in CheckNames |-> OutcomeOf(n, kinds[n])],
                   order |-> order, now1 |-> now1, now2 |-> now2]
    /\ fn_out = None
    /\ NoScan

\* scan_repo called twice on that repository
CallTwice ==
    /\ mode = "twice"
    /\ pc = "call"
    /\ fn_out' =
          [ first  |-> Scanned(scan_repo(fn_in.config, get_all_checks(registry),
                                         fn_in.outcomes), fn_in.now1),
            second |-> Scanned(scan_repo(fn_in.config,
                                         Reordered(get_all_checks(registry), fn_in.order),
                                         fn_in.outcomes), fn_in.now2) ]
    /\ pc' = "returned"
    /\ UNCHANGED <<config, registry, all_checks, idx, check_results, returned, result,
                   mode, fn_in>>

SpecTwice == InitTwice /\ [][CallTwice]_vars

\* the check registered at checks/agentic_security.py, whose probe passes when
\* the repository holds no prompt directory
prompt_secret_scanning ==
    CheckDefinition("prompt_secret_scanning", "security_and_governance",
                    "secret_hygiene", "", FromInt(1), <<>>)

\* paths a batch may hold: a repository on which every probe passes, one that
\* holds a README with the expected sections and nothing else, a path at which
\* nothing exists, and a symbolic link that points to itself
Paths == {"/srv/full", "/srv/docs", "/srv/missing", "/srv/loop"}

Unreadable(path) == path \in {"/srv/missing", "/srv/loop"}

\* the category of the decorator of check name
RegisteredCategoryOf(name) ==
    IF name = "prompt_secret_scanning" THEN prompt_secret_scanning.category
    ELSE Registry[CHOOSE i \in 1..Len(Registry) : Registry[i].name = name].category

\* what the probe of check name does at path. Below a path that holds nothing
\* every (repo_path / name).exists() and is_dir() is False and every glob is
\* empty: the probes looking for a file fail, prompt_secret_scanning finds no
\* prompt directory and passes
ProbeAt(path, name) ==
    IF Unreadable(path)
    THEN OutcomeOf(name, IF name = "prompt_secret_scanning" THEN "pass" ELSE "fail")
    ELSE IF path = "/srv/docs"
    THEN OutcomeOf(name, IF \/ RegisteredCategoryOf(name) = "discoverability"
                            \/ name = "prompt_secret_scanning"
                         THEN "pass" ELSE "fail")
    ELSE OutcomeOf(name, "pass")

\* repo_path.resolve(): pathlib before Python 3.13 raises RuntimeError on a
\* symbolic link loop, later versions return the path
ResolveRaises(path, loop_raises) == path = "/srv/loop" /\ loop_raises

\* ScanSummary(...) as scan_repos creates it, repos appended
ScanSummary(repos) ==
    [ repos |-> repos, total_repos |-> 0, average_score |-> FromInt(0),
      level_distribution |-> <<>>, maturity_distribution |-> <<>>,
      grade_distribution |-> <<>>, average_overall_score |-> FromInt(0) ]

\* sum(...) / self.total_repos
RatDivInt(a, n) ==
    IF n = 0 \/ ~IsRat(a) THEN ZeroDivisionError ELSE Rat(a.n, a.d * n)

\* a distribution dict: how many repos have each value of the field
Distribution(repos, field) ==
    [k \in {repos[i].result[field] : i \in 1..Len(repos)} |->
        Cardinality({i \in 1..Len(repos) : repos[i].result[field] = k})]

\* the statistics of calculate_summary
SummaryStatistics(summary) ==
    LET repos == summary.repos
        total_repos == Len(repos)
    IN  [ summary EXCEPT
            !.total_repos = total_repos,
            !.average_score =
                RatDivInt(SumSeq([i \in 1..Len(repos) |-> repos[i].result.score_total]),
                          total_repos),
            !.level_distribution = Distribution(repos, "level"),
            !.maturity_distribution = Distribution(repos, "maturity_name"),
            !.grade_distribution = Distribution(repos, "grade"),
            !.average_overall_score =
                RatDivInt(SumSeq([i \in 1..Len(repos) |-> repos[i].result.overall_score]),
                          total_repos) ]

\* calculate_summary without its first statement
calculate_summary_unguarded(summary) == SummaryStatistics(summary)

\* ScanSummary.calculate_summary
calculate_summary(summary) ==
    IF summary.repos = <<>> THEN summary ELSE SummaryStatistics(summary)

\* the loop of scan_repos over the remaining paths; an exception of scan_repo
\* leaves scan_repos
RECURSIVE ScanReposLoop(_, _, _, _, _)
ScanReposLoop(paths, cfg, checks, loop_raises, repos) ==
    IF paths = <<>> THEN calculate_summary(ScanSummary(repos))
    ELSE LET path == Head(paths)
         IN  IF ResolveRaises(path, loop_raises)
             THEN [error |-> "RuntimeError"]
             ELSE ScanReposLoop(Tail(paths), cfg, checks, loop_raises,
                      Append(repos,
                             [repo_path |-> path,
                              result |-> scan_repo(cfg, checks,
                                            [n \in {checks[i].name : i \in 1..Len(checks)} |->
                                                 ProbeAt(path, n)])]))

scan_repos(paths, cfg, checks, loop_raises) ==
    ScanReposLoop(paths, cfg, checks, loop_raises, <<>>)

\* sequences of at most n elements of S
RECURSIVE SeqUpTo(_, _)
SeqUpTo(S, n) ==
    IF n = 0 THEN {<<>>}
    ELSE LET shorter == SeqUpTo(S, n - 1)
         IN  shorter \cup {Append(q, x) : q \in shorter, x \in S}

\* a batch of paths for scan_repos, default configuration, the registry holding
\* prompt_secret_scanning as well
InitBatch ==
    /\ mode = "batch"
    /\ pc = "call"
    /\ \E paths \in SeqUpTo(Paths, MaxPaths), loop_raises \in BOOLEAN :
          fn_in = [paths |-> paths, config |-> DefaultConfig,
                   loop_raises |-> loop_raises]
    /\ fn_out = None
    /\ config = DefaultConfig
    /\ registry = Register(Registry, prompt_secret_scanning)
    /\ all_checks = <<>>
    /\ idx = 0
    /\ check_results = <<>>
    /\ returned = <<>>
    /\ result = RepoResult

CallBatch ==
    /\ mode = "batch"
    /\ pc = "call"
    /\ LET out == scan_repos(fn_in.paths, fn_in.config, get_all_checks(registry),
                             fn_in.loop_raises)
       IN  /\ fn_out' = out
           /\ pc' = IF "error" \in DOMAIN out THEN "raised" ELSE "returned"
    /\ UNCHANGED <<config, registry, all_checks, idx, check_results, returned, result,
                   mode, fn_in>>

SpecBatch == InitBatch /\ [][CallBatch]_vars

\* the category under which check name is registered
RegisteredCategory(name) ==
    Registry[CHOOSE i \in 1..Len(Registry) : Registry[i].name = name].category

\* a repository on which the probes of one category all fail (or all raise) and
\* every other probe passes, scanned under one of the configurations
InitScenario ==
    /\ mode = "scenario"
    /\ pc = "call"
    /\ \E cfg \in Configs, failing \in Range(CATEGORY_ORDER), kind \in {"fail", "raise"} :
          fn_in = [config |-> cfg, failing |-> failing,
                   outcomes |-> [n \in CheckNames |->
                                   OutcomeOf(n, IF RegisteredCategory(n) = failing
                                                THEN kind ELSE "pass")]]
    /\ fn_out = None
    /\ NoScan

CallScenario ==
    /\ mode = "scenario"
    /\ pc = "call"
    /\ fn_out' = scan_repo(fn_in.config, get_all_checks(registry), fn_in.outcomes)
    /\ pc' = "returned"
    /\ UNCHANGED <<config, registry, all_checks, idx, check_results, returned, result,
                   mode, fn_in>>

SpecScenario == InitScenario /\ [][CallScenario]_vars

\* an optional command line value: <<>> when the option is not given
Optional(S) == {<<>>} \cup {<<v>> : v \in S}

\* score_total of the scanned repositories, around the thresholds
CliScores == {FromInt(0), Rat(19, 2), FromInt(10), FromInt(16)}

\* min_required of the strict mode check
MinRequiredConfigOnly(min_score, minimum_passing_score) == minimum_passing_score

MinRequired(min_score, minimum_passing_score) ==
    IF min_score # <<>> THEN min_score[1] ELSE minimum_passing_score

\* the scan command from the choice of the repositories to its exit: source says
\* which of --root, --repo or the current directory names them, scores holds the
\* score_total of each RepoResult of scan_repos
scan(source, scores, strict, min_score, minimum_passing_score) ==
    IF source = "root" /\ scores = <<>>
    THEN [exit_code |-> 1, stderr |-> "No repositories found"]
    ELSE LET min_required == MinRequired(min_score, minimum_passing_score)
             failing_repos ==
                 SelectSeq(scores, LAMBDA score_total :
                                       RatLT(score_total, FromInt(min_required)))
         IN  IF strict /\ failing_repos # <<>>
             THEN [exit_code |-> 1, stderr |-> "below minimum score"]
             ELSE [exit_code |-> 0, stderr |-> ""]

\* an invocation of the scan command: --root finds any number of repositories,
\* --repo and the current directory name one
InitCli ==
    /\ mode = "cli"
    /\ pc = "call"
    /\ \E source \in {"root", "repo", "cwd"}, scores \in SeqUpTo(CliScores, MaxRepos),
          strict \in BOOLEAN, min_score \in Optional({0, 10, 16}),
          minimum_passing_score \in {10, 12} :
          /\ source # "root" => Len(scores) = 1
          /\ fn_in = [source |-> source, scores |-> scores, strict |-> strict,
                      min_score |-> min_score,
                      minimum_passing_score |-> minimum_passing_score]
    /\ fn_out = None
    /\ NoScan

CallCli ==
    /\ mode = "cli"
    /\ pc = "call"
    /\ fn_out' = scan(fn_in.source, fn_in.scores, fn_in.strict, fn_in.min_score,
                      fn_in.minimum_passing_score)
    /\ pc' = "returned"
    /\ UNCHANGED <<config, registry, all_checks, idx, check_results, returned, result,
                   mode, fn_in>>

SpecCli == InitCli /\ [][CallCli]_vars

\* The directories of the trees find_repos walks, each the sequence of names
\* from the root to it; the root is <<>> and its own name is "root"
Dirs == {<<>>, <<"a">>, <<"b">>, <<".h">>, <<"a", "a">>, <<"b", "a">>}

\* path.name
DirName(path) == IF path = <<>> THEN "root" ELSE path[Len(path)]

\* child.name.startswith(".")
IsHiddenName(name) == name = ".h"

\* fnmatch.fnmatch(name, pattern) for the patterns used
fnmatch(name, pattern) ==
    CASE pattern = "a*" -> name = "a"
      [] pattern = "b*" -> name = "b"
      [] pattern = "*"  -> TRUE
      [] OTHER          -> name = pattern

\* the orders in which iterdir may yield the children of a directory
IterdirOrders == {<<".h", "a", "b">>, <<"b", "a", ".h">>}

\* path.iterdir() in the tree
Children(tree, path) ==
    LET names == SelectSeq(tree.order, LAMBDA n : Append(path, n) \in Dirs)
    IN  [i \in 1..Len(names) |-> Append(path, names[i])]

\* the include and exclude filters of search: TRUE when the repository is kept
KeptByPatterns(name, include_pattern, exclude_pattern) ==
    /\ include_pattern # <<>> => fnmatch(name, include_pattern[1])
    /\ exclude_pattern # <<>> => ~fnmatch(name, exclude_pattern[1])

\* search(path, current_depth) of find_repos and its loop over the children.
\* (path / ".git").is_dir() raises PermissionError in a directory that may not
\* be searched; the handler around the loop over the children catches it, the
\* call search(root, 0) has no handler around it.
RECURSIVE search(_, _, _, _), SearchChildren(_, _, _, _)
search(tree, args, path, repos) ==
    IF Len(path) > args.depth THEN [repos |-> repos, raised |-> FALSE]
    ELSE IF path \in tree.locked THEN [repos |-> repos, raised |-> TRUE]
    ELSE IF path \in tree.git
    THEN [ repos |-> IF KeptByPatterns(DirName(path), args.include_pattern,
                                       args.exclude_pattern)
                     THEN Append(repos, path) ELSE repos,
           raised |-> FALSE ]
    ELSE SearchChildren(tree, args, Children(tree, path), repos)

SearchChildren(tree, args, children, repos) ==
    IF children = <<>> THEN [repos |-> repos, raised |-> FALSE]
    ELSE IF IsHiddenName(DirName(Head(children)))
    THEN SearchChildren(tree, args, Tail(children), repos)
    ELSE LET found == search(tree, args, Head(children), repos)
         IN  IF found.raised
             THEN [repos |-> found.repos, raised |-> FALSE]
             ELSE SearchChildren(tree, args, Tail(children), found.repos)

\* the order of Path objects: by their parts, "." before "a" before "b"
NameRank(name) == CASE name = ".h" -> 0 [] name = "a" -> 1 [] name = "b" -> 2

RECURSIVE PathLess(_, _)
PathLess(p, q) ==
    IF p = <<>> THEN q # <<>>
    ELSE IF q = <<>> THEN FALSE
    ELSE IF Head(p) = Head(q) THEN PathLess(Tail(p), Tail(q))
    ELSE NameRank(Head(p)) < NameRank(Head(q))

\* sorted(paths) for a set of distinct paths
RECURSIVE SortedPaths(_)
SortedPaths(paths) ==
    IF paths = {} THEN <<>>
    ELSE LET least == CHOOSE p \in paths : \A q \in paths \ {p} : PathLess(p, q)
         IN  <<least>> \o SortedPaths(paths \ {least})

find_repos(tree, args) ==
    LET found == search(tree, args, <<>>, <<>>)
    IN  IF found.raised THEN [error |-> "PermissionError"]
        ELSE [repos |-> SortedPaths(Range(found.repos))]

\* a directory tree (which directories hold a .git directory, which may not be
\* searched, in which order iterdir yields names) and the arguments of find_repos
InitFind ==
    /\ mode = "find"
    /\ pc = "call"
    /\ \E git \in SUBSET Dirs, locked \in SUBSET {<<>>, <<"a">>, <<"b">>},
          order \in IterdirOrders, depth \in 0..MaxDepth,
          include_pattern \in Optional({"a*"}), exclude_pattern \in Optional({"b*"}) :
          fn_in = [tree |-> [git |-> git, locked |-> locked, order |-> order],
                   args |-> [depth |-> depth, include_pattern |-> include_pattern,
                             exclude_pattern |-> exclude_pattern]]
    /\ fn_out = None
    /\ NoScan

CallFind ==
    /\ mode = "find"
    /\ pc = "call"
    /\ LET out == find_repos(fn_in.tree, fn_in.args)
       IN  /\ fn_out' = out
           /\ pc' = IF "error" \in DOMAIN out THEN "raised" ELSE "returned"
    /\ UNCHANGED <<config, registry, all_checks, idx, check_results, returned, result,
                   mode, fn_in>>

SpecFind == InitFind /\ [][CallFind]_vars

\* configurations under which two scans are compared: the default, one with a
\* check disabled, one with a domain disabled, one with a category disabled
PairConfigs ==
    { DefaultConfig,
      [DefaultConfig EXCEPT !.checks = ("lockfile_exists" :> CheckConfig(FALSE, FromInt(1)))],
      [DefaultConfig EXCEPT !.domains["testing"] = DomainConfig(FALSE, DOMAIN_WEIGHTS["testing"])],
      [DefaultConfig EXCEPT !.categories["build_and_run"] = CategoryConfig(FALSE, FromInt(2))] }

\* two repositories that differ in the outcome of one probe: it fails or raises
\* on the first and passes on the second
InitFlip ==
    /\ mode = "flip"
    /\ pc = "call"
    /\ \E cfg \in PairConfigs, kinds \in [CheckNames -> {"pass", "fail"}],
          flipped \in CheckNames, kind \in {"fail", "raise"} :
          /\ kinds[flipped] = "pass"
          /\ fn_in = [config |-> cfg, flipped |-> flipped,
                      before |-> [n \in CheckNames |->
                                     OutcomeOf(n, IF n = flipped THEN kind ELSE kinds[n])],
                      after  |-> [n \in CheckNames |-> OutcomeOf(n, kinds[n])]]
    /\ fn_out = None
    /\ NoScan

\* scan_repo on both
CallFlip ==
    /\ mode = "flip"
    /\ pc = "call"
    /\ fn_out' = [before |-> scan_repo(fn_in.config, get_all_checks(registry), fn_in.before),
                  after  |-> scan_repo(fn_in.config, get_all_checks(registry), fn_in.after)]
    /\ pc' = "returned"
    /\ UNCHANGED <<config, registry, all_checks, idx, check_results, returned, result,
                   mode, fn_in>>

SpecFlip == InitFlip /\ [][CallFlip]_vars

\* the registry with the weight of the definition of one check replaced
WithDefinitionWeight(reg, name, weight) ==
    [i \in 1..Len(reg) |->
        IF reg[i].name = name THEN [reg[i] EXCEPT !.weight = weight] ELSE reg[i]]

\* a repository scanned twice: as registered under the default configuration,
\* and with another weight for one check, given by the configuration (override)
\* or by the check's definition
InitWeights ==
    /\ mode = "weights"
    /\ pc = "call"
    /\ \E kinds \in [CheckNames -> {"pass", "fail"}],
          name \in {"readme_answers_what", "ci_workflow_present"},
          source \in {"override", "definition"},
          weight \in {FromInt(0), Rat(1, 2), FromInt(3)} :
          fn_in = [outcomes |-> [n \in CheckNames |-> OutcomeOf(n, kinds[n])],
                   name |-> name, source |-> source, weight |-> weight]
    /\ fn_out = None
    /\ NoScan

CallWeights ==
    /\ mode = "weights"
    /\ pc = "call"
    /\ fn_out' =
          [ base  |-> scan_repo(DefaultConfig, get_all_checks(registry), fn_in.outcomes),
            other |-> IF fn_in.source = "override"
                      THEN scan_repo([DefaultConfig EXCEPT
                                          !.checks = (fn_in.name :>
                                                        CheckConfig(TRUE, fn_in.weight))],
                                     get_all_checks(registry), fn_in.outcomes)
                      ELSE scan_repo(DefaultConfig,
                                     get_all_checks(WithDefinitionWeight(registry, fn_in.name,
                                                                         fn_in.weight)),
                                     fn_in.outcomes) ]
    /\ pc' = "returned"
    /\ UNCHANGED <<config, registry, all_checks, idx, check_results, returned, result,
                   mode, fn_in>>

SpecWeights == InitWeights /\ [][CallWeights]_vars

----------------------------------------------------------------------------
(* Properties *)

ScanDone == mode = "scan" /\ pc = "done"
Returned(m) == mode = m /\ pc = "returned"

\* every check the gate of level l requires passed
GatePasses(cr, l) ==
    \A n \in Range(GATE_CHECKS[l]) : n \in DOMAIN cr /\ cr[n]

\* level L is within the score-implied level sl and every gate from 2 to L passes
LevelReachable(sl, cr, L) ==
    /\ sl >= L
    /\ \A l \in 2..L : l \in GateLevels => GatePasses(cr, l)

HighestLevel(sl, cr) ==
    CHOOSE L \in 1..5 :
        /\ LevelReachable(sl, cr, L)
        /\ \A M \in 1..5 : LevelReachable(sl, cr, M) => M <= L

\* C1: the maturity level reported for a total score and gate check outcomes is the
\* highest level L with score-implied level >= L and the gates of levels 2..L all
\* passing, both when the functions are called directly and at the end of a scan;
\* a failing level-3 gate gives level 2 even when levels 4 and 5 pass.
C1_MaturityIsHighestGatedLevel ==
    /\ Returned("maturity") =>
          fn_out.maturity_level =
              HighestLevel(get_maturity_for_score(fn_in.score), fn_in.check_results)
    /\ ScanDone =>
          result.maturity_level =
              HighestLevel(get_maturity_for_score(result.score_total), check_results)

\* a scan whose score qualifies for level 5, whose level-3 gate alone fails, and
\* that reports level 2
C1_Witness ==
    /\ ScanDone
    /\ get_maturity_for_score(result.score_total) = 5
    /\ ~result.gates["level_3"].passed
    /\ result.gates["level_4"].passed
    /\ result.gates["level_5"].passed
    /\ result.maturity_level = 2

\* C9: the achieved maturity level is an integer in 1..5 and never exceeds the
\* score-implied level, whatever the gates and the score.
C9_MaturityWithinBounds ==
    /\ Returned("maturity") =>
          /\ fn_out.maturity_level \in 1..5
          /\ fn_out.maturity_level <= fn_out.score_based_level
    /\ ScanDone =>
          /\ result.maturity_level \in 1..5
          /\ result.maturity_level <= get_maturity_for_score(result.score_total)

\* the lowest score with every gate check failing gives the floor, level 1
C9_Witness ==
    /\ Returned("maturity")
    /\ fn_in.score = FromInt(0)
    /\ \A n \in GateNames : ~fn_in.check_results[n]
    /\ fn_out.maturity_level = 1


\* how many results of a list have status passed, and how many partial
NumPassed(checks) == Cardinality({i \in 1..Len(checks) : checks[i].status = "passed"})
NumPartial(checks) == Cardinality({i \in 1..Len(checks) : checks[i].status = "partial"})

C4_DomainScoreIsPassPercentage ==
    ScanDone =>
        \A d \in DOMAIN result.domain_scores :
            LET ds == result.domain_scores[d]
            IN  /\ ds.total_checks = Len(ds.checks)
                /\ ds.passed_checks = NumPassed(ds.checks)
                /\ ds.score = IF Len(ds.checks) = 0 THEN FromInt(0)
                              ELSE Rat(100 * NumPassed(ds.checks), Len(ds.checks))

\* a domain of two checks, one passed and one partial, at 50
C4_Witness ==
    /\ ScanDone
    /\ \E d \in DOMAIN result.domain_scores :
          LET ds == result.domain_scores[d]
          IN  /\ Len(ds.checks) = 2
              /\ NumPassed(ds.checks) = 1
              /\ NumPartial(ds.checks) = 1
              /\ ds.score = FromInt(50)

\* C5: no scan ends in a division error; every category score lies in
\* [0, max_points], every domain score in [0, 100], and a category or domain with
\* no checks has score 0.
C5_ScoresWithinRange ==
    /\ mode = "scan" => pc # "raised"
    /\ ScanDone =>
          /\ \A c \in DOMAIN result.category_scores :
                LET cs == result.category_scores[c]
                IN  /\ IsRat(cs.score)
                    /\ RatLE(FromInt(0), cs.score)
                    /\ RatLE(cs.score, cs.max_points)
                    /\ cs.total_checks = 0 => cs.score = FromInt(0)
          /\ \A d \in DOMAIN result.domain_scores :
                LET ds == result.domain_scores[d]
                IN  /\ IsRat(ds.score)
                    /\ RatLE(FromInt(0), ds.score)
                    /\ RatLE(ds.score, FromInt(100))
                    /\ ds.total_checks = 0 => ds.score = FromInt(0)

\* a finished scan with an enabled category and an enabled domain that got no
\* check at all, next to buckets that got some
C5_Witness ==
    /\ ScanDone
    /\ \E c \in DOMAIN result.category_scores :
          result.category_scores[c].total_checks = 0
    /\ \E d \in DOMAIN result.domain_scores :
          result.domain_scores[d].total_checks = 0
    /\ \E d \in DOMAIN result.domain_scores :
          result.domain_scores[d].score = FromInt(100)


NamesOf(checks) == {checks[i].name : i \in 1..Len(checks)}

\* the definition the scan holds for a check name
DefOf(name) == CHOOSE d \in Range(all_checks) : d.name = name

\* the check's own enabled flag and its category's enabled flag both hold
FlagsHold(d) ==
    /\ d.enabled
    /\ d.name \in DOMAIN config.checks => config.checks[d.name].enabled
    /\ d.category \in DOMAIN config.categories => config.categories[d.category].enabled

\* C2: a probe that raises gives a result with status unknown, evidence of the
\* error and the definition's name, category, pillar, weight and gate metadata;
\* the exception does not propagate and the scan records every other enabled
\* check and finishes.
C2_ProbeErrorBecomesUnknown ==
    mode = "scan" =>
        /\ \A n \in DOMAIN returned :
              returned[n].outcome = "raise" =>
                  LET d == DefOf(n)
                      r == returned[n].result
                  IN  /\ r.status = "unknown"
                      /\ r.evidence # ""
                      /\ r.name = d.name
                      /\ r.category = d.category
                      /\ r.pillar = d.pillar
                      /\ r.weight = d.weight
                      /\ d.gate_for # <<>> => r.gate_level # None
        /\ pc # "raised"
        /\ pc = "done" =>
              \A i \in 1..Len(all_checks) :
                  FlagsHold(all_checks[i]) => all_checks[i].name \in DOMAIN returned

\* C10: a visited check was run and filed exactly when its own enabled flag and its
\* category's enabled flag both hold; a check that was not run appears in no
\* category, pillar or domain bucket and in neither result list, and every counter
\* counts the filed results only.
C10_OnlyEnabledChecksRun ==
    (mode = "scan" /\ pc \in {"loop", "done"}) =>
        /\ \A i \in 1..idx :
              LET d == all_checks[i]
              IN  /\ d.name \in DOMAIN returned <=> FlagsHold(d)
                  /\ FlagsHold(d) =>
                        /\ d.name \in DOMAIN check_results
                        /\ d.name \in NamesOf(result.category_scores[d.category].checks)
                        /\ (d.name \in NamesOf(result.passed_checks))
                              # (d.name \in NamesOf(result.failed_checks))
                  /\ ~FlagsHold(d) =>
                        /\ d.name \notin DOMAIN check_results
                        /\ d.name \notin NamesOf(result.passed_checks)
                        /\ d.name \notin NamesOf(result.failed_checks)
                        /\ \A c \in DOMAIN result.category_scores :
                              d.name \notin NamesOf(result.category_scores[c].checks)
                        /\ \A q \in DOMAIN result.pillar_scores :
                              d.name \notin Range(result.pillar_scores[q].checks)
                        /\ \A m \in DOMAIN result.domain_scores :
                              d.name \notin NamesOf(result.domain_scores[m].checks)
        /\ \A c \in DOMAIN result.category_scores :
              /\ result.category_scores[c].total_checks
                    = Len(result.category_scores[c].checks)
              /\ result.category_scores[c].passed_checks
                    = NumPassed(result.category_scores[c].checks)
        /\ \A q \in DOMAIN result.pillar_scores :
              result.pillar_scores[q].total_checks = Len(result.pillar_scores[q].checks)
        /\ \A m \in DOMAIN result.domain_scores :
              result.domain_scores[m].total_checks = Len(result.domain_scores[m].checks)

\* a finished scan that skipped a check of a disabled category and ran the others
C10_Witness ==
    /\ ScanDone
    /\ \E i \in 1..Len(all_checks) :
          /\ Disabled(config.categories, all_checks[i].category)
          /\ all_checks[i].name \notin DOMAIN returned
    /\ \E j \in 1..Len(all_checks) :
          /\ FlagsHold(all_checks[j])
          /\ all_checks[j].name \in DOMAIN returned

\* the weight C6 names: the domain's own, the default table's when that is zero
EffectiveWeight(d, ds) ==
    IF ds.weight # FromInt(0) THEN ds.weight ELSE DefaultWeight(d)

\* C6: calculate_overall_score returns the sum of score * weight over the supplied
\* domains, taking each domain's own weight and the default table's entry only
\* when that weight is zero, and stores score * weight in weighted_score.
C6_OverallUsesConfiguredWeight ==
    Returned("overall") =>
        /\ \A d \in DOMAIN fn_in :
              fn_out.domains[d].weighted_score
                  = RatMul(fn_in[d].score, EffectiveWeight(d, fn_in[d]))
        /\ fn_out.total
              = SumOver(DOMAIN_ORDER, fn_out.domains, LAMBDA ds : ds.weighted_score)

Scaled(domain_scores, k) ==
    [d \in DOMAIN domain_scores |->
        [domain_scores[d] EXCEPT !.score = RatMul(domain_scores[d].score, k)]]

\* C7: calculate_overall_score is linear in the domain scores; it is 100 only when
\* all six domains are supplied at 100 and 0 only when every supplied domain is 0.
C7_OverallIsLinear ==
    Returned("overall") =>
        /\ \A k \in {FromInt(0), Rat(1, 2), FromInt(2), FromInt(3)} :
              calculate_overall_score(DOMAIN_ORDER, Scaled(fn_in, k)).total
                  = RatMul(k, fn_out.total)
        /\ fn_out.total = FromInt(100) =>
              /\ DOMAIN fn_in = Range(DOMAIN_ORDER)
              /\ \A d \in DOMAIN fn_in : fn_in[d].score = FromInt(100)
        /\ fn_out.total = FromInt(0) =>
              \A d \in DOMAIN fn_in : fn_in[d].score = FromInt(0)

\* all six domains at 100 give 100
C7_Witness ==
    /\ Returned("overall")
    /\ DOMAIN fn_in = Range(DOMAIN_ORDER)
    /\ \A d \in DOMAIN fn_in : fn_in[d].score = FromInt(100)
    /\ fn_out.total = FromInt(100)

GradeRank(grade) ==
    CASE grade = "Agent-Hostile"            -> 0
      [] grade = "Human-First, Agent-Risky" -> 1
      [] grade = "Agent-Compatible"         -> 2
      [] grade = "Agent-First"              -> 3

\* the grade by closed-open score intervals
GradeByIntervals(score) ==
    CASE RatLE(FromInt(90), score)                               -> "Agent-First"
      [] RatLE(FromInt(75), score) /\ RatLT(score, FromInt(90))  -> "Agent-Compatible"
      [] RatLE(FromInt(60), score) /\ RatLT(score, FromInt(75))  -> "Human-First, Agent-Risky"
      [] RatLT(score, FromInt(60))                               -> "Agent-Hostile"

\* C8: get_grade_for_score is the threshold function with closed-open boundaries
\* at 90, 75 and 60, it is monotone in the score, and the grade of a finished scan
\* is this function of its overall_score.
C8_GradeIsThresholdFunction ==
    /\ Returned("grade") =>
          /\ fn_out = GradeByIntervals(fn_in)
          /\ \A t \in 0..MaxGradeTenths :
                RatLE(Rat(t, 10), fn_in) =>
                    GradeRank(get_grade_for_score(Rat(t, 10))) <= GradeRank(fn_out)
    /\ ScanDone => result.grade = GradeByIntervals(result.overall_score)

\* the boundary itself: 90 is graded Agent-First
C8_Witness ==
    /\ Returned("grade")
    /\ fn_in = FromInt(90)
    /\ fn_out = "Agent-First"


\* the fallback chain C11 names
ChainDomain(d) ==
    IF d.domain # "" THEN d.domain
    ELSE IF d.pillar \in DOMAIN PILLAR_TO_DOMAIN THEN PILLAR_TO_DOMAIN[d.pillar]
    ELSE IF d.category \in DOMAIN CATEGORY_TO_DOMAIN THEN CATEGORY_TO_DOMAIN[d.category]
    ELSE ""

\* the domain buckets whose checks list holds a result of the named check
DomainsHolding(domain_scores, name) ==
    {m \in DOMAIN domain_scores : name \in NamesOf(domain_scores[m].checks)}

\* how many results of the named check a list holds
Occurrences(checks, name) == Cardinality({i \in 1..Len(checks) : checks[i].name = name})

\* the check of definition d is filed once in the bucket of its chain domain when
\* the result has that bucket, and in no other bucket
FiledByChain(domain_scores, d) ==
    /\ DomainsHolding(domain_scores, d.name)
          = IF ChainDomain(d) \in DOMAIN domain_scores THEN {ChainDomain(d)} ELSE {}
    /\ \A m \in DomainsHolding(domain_scores, d.name) :
          Occurrences(domain_scores[m].checks, d.name) = 1

Blockers(res) ==
    LET next_level == res.maturity_level + 1
    IN  IF next_level <= 5 /\ GateKey(next_level) \in DOMAIN res.gates
        THEN {c \in Range(res.failed_checks) :
                 c.name \in Range(res.gates[GateKey(next_level)].failed_checks)}
        ELSE {}

BlockerSuggestions(res) == {c.suggestion : c \in Blockers(res)} \ {""}

\* in fix_first, no suggestion of a gate blocker stands after one that is not
BlockersFirst(res) ==
    \A i, j \in 1..Len(res.fix_first) :
        (/\ res.fix_first[i] \in BlockerSuggestions(res)
         /\ res.fix_first[j] \notin BlockerSuggestions(res)) => i < j

\* C12: in the fix_first of a completed RepoResult every suggestion of a failed
\* check that blocks the gate of level maturity_level + 1 stands before every
\* suggestion that comes only from checks that do not block that gate.
C12_GateBlockersFirst == Returned("repo") => BlockersFirst(fn_out)

\* a gate blocker's suggestion ahead of that of a check of the first category
C12_Witness ==
    /\ Returned("repo")
    /\ fn_out.maturity_level = 2
    /\ Len(fn_out.fix_first) >= 2
    /\ fn_out.fix_first[1] = Suggestion("lockfile_exists")
    /\ Suggestion("readme_answers_what") \in Range(fn_out.fix_first)
    /\ Suggestion("readme_answers_what") \notin BlockerSuggestions(fn_out)


\* the places in FIX_FIRST_PRIORITIES of the categories holding a check that did
\* not pass and suggests the text
CategoryRanks(res, text) ==
    {i \in 1..Len(FIX_FIRST_PRIORITIES) :
        /\ FIX_FIRST_PRIORITIES[i] \in DOMAIN res.category_scores
        /\ \E c \in Range(res.category_scores[FIX_FIRST_PRIORITIES[i]].checks) :
              ~Passed(c) /\ c.suggestion = text}

\* the first such place
CategoryRank(res, text) ==
    CHOOSE i \in CategoryRanks(res, text) : \A k \in CategoryRanks(res, text) : i <= k

FixFirstWellFormed(res) ==
    /\ \A i, j \in 1..Len(res.fix_first) :
          i # j => res.fix_first[i] # res.fix_first[j]
    /\ Len(res.fix_first) <= 7
    /\ \A i \in 1..Len(res.fix_first) :
          \E c \in Range(res.failed_checks) :
              ~Passed(c) /\ c.suggestion = res.fix_first[i]
    /\ \A i, j \in 1..Len(res.fix_first) :
          (/\ i < j
           /\ res.fix_first[i] \notin BlockerSuggestions(res)
           /\ res.fix_first[j] \notin BlockerSuggestions(res))
          => /\ CategoryRanks(res, res.fix_first[i]) # {}
             /\ CategoryRanks(res, res.fix_first[j]) # {}
             /\ CategoryRank(res, res.fix_first[i]) <= CategoryRank(res, res.fix_first[j])

\* C13: fix_first holds no suggestion text twice, at most 7 entries, only
\* suggestions of checks that did not pass, and after the gate blockers'
\* suggestions the others stand in the order of FIX_FIRST_PRIORITIES.
C13_FixFirstWellFormed == Returned("repo") => FixFirstWellFormed(fn_out)

\* more than seven distinct suggestions of failed checks, seven of them reported
C13_Witness ==
    /\ Returned("repo")
    /\ Cardinality({c.suggestion : c \in Range(fn_out.failed_checks)} \ {""}) > 7
    /\ Len(fn_out.fix_first) = 7


\* s is a sub-list of t: the elements of t satisfying membership in Range(s), in order
IsSubList(s, t) == s = SelectSeq(t, LAMBDA x : x \in Range(s))

\* the gates computed from the check results cr are consistent with them
GatesConsistent(gates, cr) ==
    /\ DOMAIN gates = {GateKey(l) : l \in GateLevels}
    /\ \A l \in GateLevels :
          LET g == gates[GateKey(l)]
          IN  /\ g.level = l
              /\ g.required_checks = GATE_CHECKS[l]
              /\ g.passed <=> g.failed_checks = <<>>
              /\ IsSubList(g.failed_checks, g.required_checks)
              /\ \A n \in Range(g.required_checks) :
                    n \in Range(g.failed_checks) <=> ~(n \in DOMAIN cr /\ cr[n])

\* C14: every GateStatus of calculate_gates has passed true exactly when its
\* failed_checks is empty, and failed_checks is the sub-list of required_checks
\* whose check did not pass.
C14_GatePassedIffNoFailedChecks ==
    /\ Returned("maturity") => GatesConsistent(fn_out.gates, fn_in.check_results)
    /\ ScanDone => GatesConsistent(result.gates, check_results)

\* a passing gate beside a failing one with a single blocker
C14_Witness ==
    /\ Returned("maturity")
    /\ fn_out.gates["level_3"].passed
    /\ ~fn_out.gates["level_4"].passed
    /\ fn_out.gates["level_4"].failed_checks = <<"machine_readable_coverage">>


\* the definitions a table holds under a name
Lookup(reg, name) == {reg[i] : i \in {i \in 1..Len(reg) : reg[i].name = name}}

\* the definition registered last under a name
LastRegistered(log, name) ==
    log[CHOOSE k \in 1..Len(log) :
            /\ log[k].name = name
            /\ \A m \in (k + 1)..Len(log) : log[m].name # name]

\* C17: after any sequence of registrations the registry holds exactly one
\* definition per registered name, and it is the one registered last under it.
C17_LastRegistrationWins ==
    mode = "register" =>
        /\ \A i, j \in 1..Len(registry) :
              registry[i].name = registry[j].name => i = j
        /\ NamesOf(registry) = NamesOf(fn_in)
        /\ \A name \in NamesOf(fn_in) :
              /\ Lookup(registry, name) = {LastRegistered(fn_in, name)}
              /\ Lookup(get_all_checks(registry), name) = {LastRegistered(fn_in, name)}

\* a name registered twice with different definitions
C17_Witness ==
    /\ mode = "register"
    /\ Len(fn_in) >= 2
    /\ fn_in[1].name = fn_in[2].name
    /\ fn_in[1] # fn_in[2]
    /\ Lookup(registry, fn_in[1].name) = {LastRegistered(fn_in, fn_in[1].name)}
    /\ fn_in[1] \notin Range(registry)


\* some caller holds a dict that get_all_checks returned
SnapshotHeld == mode = "scan" /\ pc \in {"loop", "done", "held", "mutated"}

\* the checks a scan has run are checks of its snapshot, run with the snapshot's
\* definitions, and a finished scan has run all of them
ScanFollowsSnapshot ==
    (mode = "scan" /\ config = DefaultConfig /\ pc \in {"loop", "done"}) =>
        /\ \A n \in DOMAIN returned :
              /\ n \in NamesOf(all_checks)
              /\ returned[n].result.category = DefOf(n).category
              /\ returned[n].result.pillar = DefOf(n).pillar
              /\ returned[n].result.weight = DefOf(n).weight
        /\ DOMAIN returned = {all_checks[i].name : i \in 1..idx}
        /\ pc = "done" => idx = Len(all_checks)

\* C16: get_all_checks returns a copy of the registry: a registration made while a
\* caller holds the returned dict does not change that dict, so a scan runs the
\* checks and definitions of the snapshot it took at its start, and a change of
\* the returned dict does not change the registry.
C16_SnapshotIsACopy ==
    /\ [](ScanFollowsSnapshot)
    /\ [][ /\ (pc = "idle" /\ pc' \in {"loop", "held"}) => all_checks' = registry
           /\ (SnapshotHeld /\ registry' # registry) => all_checks' = all_checks
           /\ (SnapshotHeld /\ all_checks' # all_checks) => registry' = registry
         ]_vars

\* a scan in the middle of its loop whose registry has gained a check and a new
\* definition since the snapshot was taken
C16_Witness ==
    /\ mode = "scan"
    /\ pc = "loop"
    /\ 0 < idx
    /\ idx < Len(all_checks)
    /\ "structured_logging_present" \in NamesOf(registry) \ NamesOf(all_checks)
    /\ Lookup(registry, "opentelemetry_present")
          # Lookup(all_checks, "opentelemetry_present")


\* the names a gate of a finished scan reports as failed are checks of the scan's
\* snapshot, and those that ran did not pass
FailedGateChecksAreReal ==
    ScanDone =>
        \A l \in GateLevels :
            \A n \in Range(result.gates[GateKey(l)].failed_checks) :
                /\ n \in NamesOf(all_checks)
                /\ n \in DOMAIN returned => ~Passed(returned[n].result)

BucketNumbers(b) ==
    [score |-> b.score, passed_checks |-> b.passed_checks, total_checks |-> b.total_checks]

\* the fields C18 names
ScoreFields(res) ==
    [ category_scores |-> [c \in DOMAIN res.category_scores |->
                              BucketNumbers(res.category_scores[c])],
      domain_scores   |-> [d \in DOMAIN res.domain_scores |->
                              BucketNumbers(res.domain_scores[d])],
      score_total     |-> res.score_total,
      overall_score   |-> res.overall_score,
      gates           |-> res.gates,
      maturity_level  |-> res.maturity_level,
      grade           |-> res.grade ]

OneResultPerPath ==
    /\ pc = "returned"
    /\ Len(fn_out.repos) = Len(fn_in.paths)
    /\ \A i \in 1..Len(fn_in.paths) : fn_out.repos[i].repo_path = fn_in.paths[i]

\* C19: scan_repos returns exactly one RepoResult per input path, in input order;
\* a repository that cannot be read at all yields a RepoResult in which no check
\* passed, and does not keep the other repositories of the batch from being scanned.
C19_BatchYieldsOneResultPerPath ==
    (mode = "batch" /\ pc # "call") =>
        /\ OneResultPerPath
        /\ \A i \in 1..Len(fn_out.repos) :
               Unreadable(fn_out.repos[i].repo_path) =>
                   /\ fn_out.repos[i].result.passed_checks = <<>>
                   /\ Len(fn_out.repos[i].result.failed_checks) = Len(registry)

\* what holds of scan_repos: when no resolve() raises, one RepoResult per path in
\* input order, in which every check ran
C19_OneResultPerPathUnlessResolveRaises ==
    (mode = "batch" /\ pc # "call") =>
        IF \E i \in 1..Len(fn_in.paths) : ResolveRaises(fn_in.paths[i], fn_in.loop_raises)
        THEN pc = "raised"
        ELSE /\ OneResultPerPath
             /\ \A i \in 1..Len(fn_out.repos) :
                    Len(fn_out.repos[i].result.passed_checks)
                      + Len(fn_out.repos[i].result.failed_checks) = Len(registry)


\* the categories the configuration enables, in CATEGORY_ORDER
EnabledCategories(cfg) ==
    SelectSeq(CATEGORY_ORDER, LAMBDA c : cfg.categories[c].enabled)

\* the sum of the enabled categories' max_points
EnabledMaxPoints(cfg) ==
    LET cats == EnabledCategories(cfg)
    IN  SumSeq([i \in 1..Len(cats) |-> cfg.categories[cats[i]].max_points])

\* the sum of the category scores of a result
CategoryScoreSum(res) ==
    LET cats == SelectIn(CATEGORY_ORDER, DOMAIN res.category_scores)
    IN  SumSeq([i \in 1..Len(cats) |-> res.category_scores[cats[i]].score])

TotalsAreSums(cfg, res) ==
    /\ res.score_total = CategoryScoreSum(res)
    /\ res.max_score = EnabledMaxPoints(cfg)
    /\ DOMAIN res.category_scores = Range(EnabledCategories(cfg))

\* the failing category scores 0, every other category its max_points, and the
\* total is max_score less the failing category's max_points
OnlyFailingCategoryLosesPoints(res, failing) ==
    /\ res.category_scores[failing].score = FromInt(0)
    /\ \A c \in DOMAIN res.category_scores \ {failing} :
           res.category_scores[c].score = res.category_scores[c].max_points
    /\ RatAdd(res.score_total, res.category_scores[failing].max_points) = res.max_score

\* C20 as stated: score_total is the sum of the category scores and max_score the
\* sum of the enabled categories' max_points; when every check passes except those
\* of one category, which all fail, that category scores 0, every other category
\* scores its max_points and score_total is max_score less that category's max_points.
C20_OneFailingCategoryCostsItsPoints ==
    Returned("scenario") =>
        /\ TotalsAreSums(fn_in.config, fn_out)
        /\ fn_in.failing \in DOMAIN fn_out.category_scores
               => OnlyFailingCategoryLosesPoints(fn_out, fn_in.failing)

\* C20 amended: score_total is the sum of the category scores and max_score the
\* sum of the enabled categories' max_points; a category none of whose checks ran
\* scores 0; when every other enabled category has a check that ran and every
\* check passes except those of one category, which all fail, that category scores
\* 0, every other category scores its max_points and score_total is max_score less
\* that category's max_points.
C20_OneFailingCategoryCostsItsPointsIfOthersRan ==
    Returned("scenario") =>
        /\ TotalsAreSums(fn_in.config, fn_out)
        /\ \A c \in DOMAIN fn_out.category_scores :
               fn_out.category_scores[c].total_checks = 0
                   => fn_out.category_scores[c].score = FromInt(0)
        /\ ( /\ fn_in.failing \in DOMAIN fn_out.category_scores
             /\ \A c \in DOMAIN fn_out.category_scores \ {fn_in.failing} :
                    fn_out.category_scores[c].total_checks > 0 )
               => OnlyFailingCategoryLosesPoints(fn_out, fn_in.failing)

\* both checks of discoverability fail under the default configuration: 14 of 16
C20_Witness ==
    /\ Returned("scenario")
    /\ fn_in.config = DefaultConfig
    /\ fn_in.failing = "discoverability"
    /\ fn_out.category_scores["discoverability"].total_checks = 2
    /\ fn_out.category_scores["discoverability"].score = FromInt(0)
    /\ fn_out.score_total = FromInt(14)
    /\ fn_out.max_score = FromInt(16)


\* strict mode is on and some repository scored below the minimum in force
StrictFailure ==
    /\ fn_in.strict
    /\ \E i \in 1..Len(fn_in.scores) :
          RatLT(fn_in.scores[i],
                FromInt(IF fn_in.min_score # <<>> THEN fn_in.min_score[1]
                        ELSE fn_in.minimum_passing_score))

\* C21 as stated: the scan command exits non-zero when strict mode is on and some
\* repository scored below the minimum (--min-score if given, else the configured
\* minimum_passing_score), and only then.
C21_NonZeroExitIffStrictFailure ==
    Returned("cli") => (fn_out.exit_code # 0 <=> StrictFailure)

\* C21 amended: the scan command exits with code 1 when strict mode is on and some
\* repository scored below the minimum (--min-score if given, else the configured
\* minimum_passing_score), and also when --root finds no repository; in every
\* other case it exits with code 0.
C21_NonZeroExitIffStrictFailureOrNoRepos ==
    Returned("cli") =>
        /\ fn_out.exit_code \in {0, 1}
        /\ fn_out.exit_code = 1 <=>
               \/ StrictFailure
               \/ fn_in.source = "root" /\ fn_in.scores = <<>>

\* a repository at the configured minimum but below the --min-score given
C21_Witness ==
    /\ Returned("cli")
    /\ fn_in.source = "repo"
    /\ fn_in.strict
    /\ fn_in.min_score = <<16>>
    /\ fn_in.minimum_passing_score = 10
    /\ fn_in.scores = <<FromInt(10)>>
    /\ fn_out.exit_code = 1


\* the sum of the weights of the default configuration's domains
DefaultWeightSum ==
    SumSeq([i \in 1..Len(DOMAIN_ORDER) |-> DefaultConfig.domains[DOMAIN_ORDER[i]].weight])

\* the sum of the max_points of the default configuration's categories
DefaultMaxPointsSum ==
    SumSeq([i \in 1..Len(CATEGORY_ORDER) |->
               DefaultConfig.categories[CATEGORY_ORDER[i]].max_points])

\* C22: the default configuration has six domains weighing 15, 20, 20, 20, 15 and
\* 10 percent, all positive and summing to 1, and eight categories whose
\* max_points sum to 16, the scale_points_total; a scan under it reports max_score
\* 16 and, when every domain scores 100, overall_score 100.
C22_DefaultWeightsAndPoints ==
    /\ DOMAIN DefaultConfig.domains = Range(DOMAIN_ORDER)
    /\ Len(DOMAIN_ORDER) = 6
    /\ DefaultConfig.domains["structure"].weight = Rat(15, 100)
    /\ DefaultConfig.domains["interfaces"].weight = Rat(20, 100)
    /\ DefaultConfig.domains["determinism"].weight = Rat(20, 100)
    /\ DefaultConfig.domains["security"].weight = Rat(20, 100)
    /\ DefaultConfig.domains["testing"].weight = Rat(15, 100)
    /\ DefaultConfig.domains["ergonomics"].weight = Rat(10, 100)
    /\ \A d \in DOMAIN DefaultConfig.domains :
           /\ RatLT(FromInt(0), DefaultConfig.domains[d].weight)
           /\ DefaultConfig.domains[d].weight = DOMAIN_WEIGHTS[d]
    /\ DefaultWeightSum = FromInt(1)
    /\ Len(CATEGORY_ORDER) = 8
    /\ DOMAIN DefaultConfig.categories = Range(CATEGORY_ORDER)
    /\ DefaultMaxPointsSum = FromInt(scale_points_total)
    /\ scale_points_total = 16
    /\ Returned("repo") =>
           /\ fn_out.max_score = FromInt(scale_points_total)
           /\ (\A d \in DOMAIN fn_out.domain_scores :
                   fn_out.domain_scores[d].score = FromInt(100))
                 => fn_out.overall_score = FromInt(100)

\* a scan under the default configuration in which every check passed
C22_Witness ==
    /\ Returned("repo")
    /\ fn_in.config = DefaultConfig
    /\ DOMAIN fn_out.domain_scores = Range(DOMAIN_ORDER)
    /\ \A d \in DOMAIN fn_out.domain_scores : fn_out.domain_scores[d].score = FromInt(100)
    /\ fn_out.overall_score = FromInt(100)
    /\ fn_out.score_total = FromInt(16)
    /\ fn_out.max_score = FromInt(16)


\* the three tables of score buckets of a RepoResult
BucketTables == {"category_scores", "pillar_scores", "domain_scores"}

\* a scan is between the creation of its buckets and its return
Scanning == mode = "scan" /\ pc \in {"loop", "done"}

\* in every bucket 0 <= passed_checks <= total_checks = len(checks)
BucketCountsConsistent ==
    Scanning =>
        \A t \in BucketTables : \A k \in DOMAIN result[t] :
            /\ 0 <= result[t][k].passed_checks
            /\ result[t][k].passed_checks <= result[t][k].total_checks
            /\ result[t][k].total_checks = Len(result[t][k].checks)

\* a step of a scan keeps every bucket, never lowers a count, raises a
\* total_checks by one only, and only in the step that files a check, which
\* raises it in at most one bucket of each table and in the check's category
BucketCountsGrow ==
    (Scanning /\ Scanning') =>
        /\ \A t \in BucketTables :
              /\ DOMAIN result'[t] = DOMAIN result[t]
              /\ \A k \in DOMAIN result[t] :
                    /\ result'[t][k].total_checks - result[t][k].total_checks \in {0, 1}
                    /\ result'[t][k].passed_checks - result[t][k].passed_checks \in {0, 1}
                    /\ result'[t][k].total_checks # result[t][k].total_checks
                           => DOMAIN returned' # DOMAIN returned
              /\ Cardinality({k \in DOMAIN result[t] :
                                 result'[t][k].total_checks # result[t][k].total_checks}) <= 1
        /\ DOMAIN returned' # DOMAIN returned =>
              \A c \in DOMAIN result.category_scores :
                  (result'.category_scores[c].total_checks
                      = result.category_scores[c].total_checks + 1)
                  <=> c = all_checks[idx'].category

\* C23: during one scan, in every category, pillar and domain bucket total_checks
\* only grows, by one per filed check, 0 <= passed_checks <= total_checks holds, and
\* total_checks is the length of the bucket's list of checks.
C23_BucketCountsOnlyGrow ==
    [](BucketCountsConsistent) /\ [][BucketCountsGrow]_vars

\* a finished scan with a domain that holds a passed and a non-passed check
C23_Witness ==
    /\ ScanDone
    /\ \E d \in DOMAIN result.domain_scores :
          /\ result.domain_scores[d].total_checks >= 2
          /\ result.domain_scores[d].passed_checks >= 1
          /\ result.domain_scores[d].passed_checks < result.domain_scores[d].total_checks


\* the sum of the counts of a distribution
RECURSIVE CountSum(_)
CountSum(distribution) ==
    IF DOMAIN distribution = {} THEN 0
    ELSE LET k == CHOOSE x \in DOMAIN distribution : TRUE
         IN  distribution[k]
               + CountSum([x \in DOMAIN distribution \ {k} |-> distribution[x]])

\* a is the arithmetic mean of the numbers of the sequence
IsMeanOf(a, numbers) ==
    /\ IsRat(a)
    /\ RatEq(RatMul(a, FromInt(Len(numbers))), SumSeq(numbers))

\* C24: scan_repos over a non-empty list of paths returns a summary whose
\* total_repos is the number of paths, whose two averages are the arithmetic means
\* of the repos' score_total and overall_score and whose three distributions each
\* count total_repos repositories; over the empty list the summary keeps
\* total_repos 0, averages 0 and empty distributions, and nothing is divided.
C24_SummaryStatistics ==
    (mode = "batch" /\ pc = "returned") =>
        /\ "error" \notin DOMAIN fn_out
        /\ IF fn_in.paths # <<>>
           THEN /\ fn_out.total_repos = Len(fn_in.paths)
                /\ IsMeanOf(fn_out.average_score,
                            [i \in 1..Len(fn_out.repos) |->
                                fn_out.repos[i].result.score_total])
                /\ IsMeanOf(fn_out.average_overall_score,
                            [i \in 1..Len(fn_out.repos) |->
                                fn_out.repos[i].result.overall_score])
                /\ CountSum(fn_out.level_distribution) = fn_out.total_repos
                /\ CountSum(fn_out.maturity_distribution) = fn_out.total_repos
                /\ CountSum(fn_out.grade_distribution) = fn_out.total_repos
           ELSE /\ fn_out.total_repos = 0
                /\ fn_out.average_score = FromInt(0)
                /\ fn_out.average_overall_score = FromInt(0)
                /\ DOMAIN fn_out.level_distribution = {}
                /\ DOMAIN fn_out.maturity_distribution = {}
                /\ DOMAIN fn_out.grade_distribution = {}

\* a batch of three repositories of two different grades, one of them twice
C24_Witness ==
    /\ mode = "batch"
    /\ pc = "returned"
    /\ fn_out.total_repos = 3
    /\ Cardinality(DOMAIN fn_out.grade_distribution) = 2
    /\ \E g \in DOMAIN fn_out.grade_distribution : fn_out.grade_distribution[g] = 2
    /\ fn_out.repos[1].result.score_total # fn_out.repos[2].result.score_total
    /\ ~RatEq(fn_out.average_score, fn_out.repos[1].result.score_total)

\* the summary of the empty batch
C24_WitnessEmpty ==
    mode = "batch" /\ pc = "returned" /\ fn_in.paths = <<>> /\ fn_out.total_repos = 0


\* the proper prefixes of a path: the directories passed through to reach it
Ancestors(path) == {SubSeq(path, 1, n) : n \in 0..(Len(path) - 1)}

\* the repositories C25 describes: they hold .git, lie at most depth levels below
\* the root, are reached through no hidden directory and no other repository (a
\* hidden directory is not entered either), and pass the patterns
DescribedRepos(tree, args) ==
    { d \in Dirs :
        /\ d \in tree.git
        /\ Len(d) <= args.depth
        /\ \A n \in 1..Len(d) : ~IsHiddenName(d[n])
        /\ Ancestors(d) \cap tree.git = {}
        /\ KeptByPatterns(DirName(d), args.include_pattern, args.exclude_pattern) }

\* C25: find_repos returns, in sorted order, exactly the directories that hold a
\* .git directory, lie at most depth levels below the root, are reached through no
\* hidden directory and no other repository, and pass the include and exclude
\* patterns.
C25_FindReposReturnsDescribedRepos ==
    (mode = "find" /\ pc # "call") =>
        /\ pc = "returned"
        /\ fn_out.repos = SortedPaths(DescribedRepos(fn_in.tree, fn_in.args))

\* what holds of find_repos: the same, on the trees in which every directory
\* within depth may be searched
C25_FindReposOnSearchableTrees ==
    (mode = "find" /\ pc # "call"
       /\ \A d \in fn_in.tree.locked : Len(d) > fn_in.args.depth) =>
        /\ pc = "returned"
        /\ fn_out.repos = SortedPaths(DescribedRepos(fn_in.tree, fn_in.args))
        /\ \A i, j \in 1..Len(fn_out.repos) :
               i < j => PathLess(fn_out.repos[i], fn_out.repos[j])


\* no score, level or grade of result a is above that of result b
NowhereAbove(a, b) ==
    /\ DOMAIN a.category_scores = DOMAIN b.category_scores
    /\ \A c \in DOMAIN a.category_scores :
           RatLE(a.category_scores[c].score, b.category_scores[c].score)
    /\ DOMAIN a.domain_scores = DOMAIN b.domain_scores
    /\ \A d \in DOMAIN a.domain_scores :
           RatLE(a.domain_scores[d].score, b.domain_scores[d].score)
    /\ RatLE(a.score_total, b.score_total)
    /\ RatLE(a.overall_score, b.overall_score)
    /\ a.maturity_level <= b.maturity_level
    /\ GradeRank(a.grade) <= GradeRank(b.grade)

\* C26: with the configuration fixed, turning one executed check from a
\* non-passing outcome to passed lowers no category score, no domain score, not
\* score_total, not overall_score, not the maturity level and not the grade.
C26_ScoresMonotoneInOutcomes ==
    Returned("flip") => NowhereAbove(fn_out.before, fn_out.after)

\* the check that turned to passed opened a gate: score_total, the maturity level
\* and the grade all rose
C26_Witness ==
    /\ Returned("flip")
    /\ fn_in.config = DefaultConfig
    /\ RatLT(fn_out.before.score_total, fn_out.after.score_total)
    /\ fn_out.before.maturity_level < fn_out.after.maturity_level
    /\ ~fn_out.before.gates["level_3"].passed
    /\ fn_out.after.gates["level_3"].passed
    /\ GradeRank(fn_out.before.grade) < GradeRank(fn_out.after.grade)


\* the gate checks a finished scan did not execute
UnexecutedGateChecks(l) == {n \in Range(GATE_CHECKS[l]) : n \notin DOMAIN returned}

\* C27: a gate check that a scan did not execute, its check or its category being
\* disabled, counts as failed: the gate of its level lists it in failed_checks and
\* is not passed, and the maturity level stays below that level.
C27_UnexecutedGateCheckFailsGate ==
    ScanDone =>
        \A l \in GateLevels : \A n \in UnexecutedGateChecks(l) :
            /\ ~IsEnabled(config, DefOf(n))
            /\ n \in Range(result.gates[GateKey(l)].failed_checks)
            /\ ~result.gates[GateKey(l)].passed
            /\ result.maturity_level < l

\* every check that ran passed and the score implies level 4, but the disabled
\* ci_workflow_present keeps the level 3 gate shut and the maturity level at 2
C27_Witness ==
    /\ ScanDone
    /\ "ci_workflow_present" \in UnexecutedGateChecks(3)
    /\ \A n \in DOMAIN check_results : check_results[n]
    /\ get_maturity_for_score(result.score_total) >= 3
    /\ result.gates["level_3"].failed_checks = <<"ci_workflow_present">>
    /\ result.maturity_level = 2


\* a list of check results with every weight field set to 1
WithoutWeights(results) ==
    [i \in 1..Len(results) |-> [results[i] EXCEPT !.weight = FromInt(1)]]

\* a RepoResult with the weight field of every check result in it set to 1
ResultWithoutWeights(res) ==
    [ res EXCEPT
        !.category_scores =
            [c \in DOMAIN res.category_scores |->
                [res.category_scores[c] EXCEPT !.checks = WithoutWeights(@)]],
        !.domain_scores =
            [d \in DOMAIN res.domain_scores |->
                [res.domain_scores[d] EXCEPT !.checks = WithoutWeights(@)]],
        !.passed_checks = WithoutWeights(@),
        !.failed_checks = WithoutWeights(@) ]

\* the weight recorded on the result of check name in a RepoResult
RecordedWeight(res, name) ==
    LET all == res.passed_checks \o res.failed_checks
    IN  all[CHOOSE i \in 1..Len(all) : all[i].name = name].weight

DisabledDomains(cfg) == {d \in Range(DOMAIN_ORDER) : Disabled(cfg.domains, d)}

\* the sum of the DOMAIN_WEIGHTS of the domains a configuration leaves enabled
EnabledWeightSum(cfg) ==
    LET enabled == SelectSeq(DOMAIN_ORDER, LAMBDA d : d \notin DisabledDomains(cfg))
    IN  SumSeq([i \in 1..Len(enabled) |-> DefaultWeight(enabled[i])])

\* the checks of the registry snapshot that resolve to a disabled domain and
\* whose own entry and category the configuration leaves enabled
ChecksOfDisabledDomains ==
    {check_def \in Range(all_checks) :
        /\ ResolveDomain(check_def) \in DisabledDomains(config)
        /\ IsEnabled(config, check_def)}

\* C29: a domain disabled by configuration is absent from domain_scores and its
\* weight is not redistributed, overall_score being at most 100 times the sum of
\* the default weights of the enabled domains; a check resolving to the disabled
\* domain is still executed, counted in its category bucket and evaluated by the
\* gates.
C29_DisabledDomainAbsentNotRedistributed ==
    ScanDone =>
        /\ \A d \in DisabledDomains(config) : d \notin DOMAIN result.domain_scores
        /\ RatLE(result.overall_score, Times(FromInt(100), EnabledWeightSum(config)))
        /\ \A check_def \in ChecksOfDisabledDomains :
              /\ check_def.name \in DOMAIN returned
              /\ check_def.name \in DOMAIN check_results
              /\ check_def.category \in DOMAIN result.category_scores =>
                    check_def.name \in NamesOf(result.category_scores[check_def.category].checks)
              /\ \A l \in GateLevels :
                    check_def.name \in Range(GATE_CHECKS[l]) =>
                        (check_def.name \in Range(result.gates[GateKey(l)].failed_checks)
                            <=> ~check_results[check_def.name])

\* a gate check of a disabled domain failed, its category lost points and its gate
\* is shut, while the overall score reaches the bound, every other check passing
C29_Witness ==
    /\ ScanDone
    /\ \E check_def \in ChecksOfDisabledDomains : \E l \in GateLevels :
          /\ check_def.name \in Range(GATE_CHECKS[l])
          /\ ~check_results[check_def.name]
          /\ ~result.gates[GateKey(l)].passed
          /\ RatLT(result.category_scores[check_def.category].score,
                   result.category_scores[check_def.category].max_points)
          /\ result.domain_scores # <<>>
          /\ RatEq(result.overall_score, Times(FromInt(100), EnabledWeightSum(config)))
          /\ RatLT(result.overall_score, FromInt(100))


\* the names of the executed checks whose category has a score bucket
ExecutedInBuckets ==
    {n \in DOMAIN returned : DefOf(n).category \in DOMAIN result.category_scores}

\* the sum of total_checks over the category buckets
CategoryTotalChecks ==
    LET cats == SelectIn(CATEGORY_ORDER, DOMAIN result.category_scores)
    IN  SumSeq([i \in 1..Len(cats) |->
                   FromInt(result.category_scores[cats[i]].total_checks)]).n

\* every result of the list is the one run_check returned for its name, up to
\* the weight override
ListsReturnedResults(results) ==
    \A i \in 1..Len(results) :
        /\ results[i].name \in DOMAIN returned
        /\ results[i].status = returned[results[i].name].result.status

\* C30: after scan_repo, passed_checks and failed_checks partition the executed
\* checks whose category has a score bucket: each is in exactly one list, once;
\* passed_checks holds those with status passed, failed_checks those with status
\* failed, partial or unknown; the lengths add up to the categories' total_checks.
C30_PassedAndFailedPartitionExecuted ==
    ScanDone =>
        /\ NamesOf(result.passed_checks) \cup NamesOf(result.failed_checks)
              = ExecutedInBuckets
        /\ NamesOf(result.passed_checks) \cap NamesOf(result.failed_checks) = {}
        /\ Cardinality(NamesOf(result.passed_checks)) = Len(result.passed_checks)
        /\ Cardinality(NamesOf(result.failed_checks)) = Len(result.failed_checks)
        /\ ListsReturnedResults(result.passed_checks)
        /\ ListsReturnedResults(result.failed_checks)
        /\ \A i \in 1..Len(result.passed_checks) :
              result.passed_checks[i].status = "passed"
        /\ \A i \in 1..Len(result.failed_checks) :
              result.failed_checks[i].status \in {"failed", "partial", "unknown"}
        /\ Len(result.passed_checks) + Len(result.failed_checks) = CategoryTotalChecks

\* a scan with a partial and an unknown result in failed_checks, the other
\* executed checks in passed_checks, and one check not executed
C30_Witness ==
    /\ ScanDone
    /\ {result.failed_checks[i].status : i \in 1..Len(result.failed_checks)}
          = {"partial", "unknown"}
    /\ Len(result.passed_checks) > 0
    /\ Len(result.passed_checks) + Len(result.failed_checks) < Len(all_checks)

====
